---- MODULE Spec2Model ----
(***************************************************************************)
(* Model of main.py: multi-platform social media content generation and   *)
(* delivery (MultiPlatformContentGenerator and                            *)
(* run_daily_multi_platform_campaign).                                    *)
(*                                                                         *)
(* Python strings are sequences of one-character strings; a code point    *)
(* outside printable ASCII is written "U+XXXX".  Platform identifiers,    *)
(* themes and brand voices, which the program only uses as dictionary     *)
(* keys, are TLA+ strings.                                                *)
(***************************************************************************)
EXTENDS Integers, Sequences, FiniteSets, TLC

(***************************************************************************)
(* Python built-ins used by the program                                   *)
(***************************************************************************)

\* str.lower() on one character
LowerChar(c) ==
    CASE c = "A" -> "a" [] c = "B" -> "b" [] c = "C" -> "c" [] c = "D" -> "d"
      [] c = "E" -> "e" [] c = "F" -> "f" [] c = "G" -> "g" [] c = "H" -> "h"
      [] c = "I" -> "i" [] c = "J" -> "j" [] c = "K" -> "k" [] c = "L" -> "l"
      [] c = "M" -> "m" [] c = "N" -> "n" [] c = "O" -> "o" [] c = "P" -> "p"
      [] c = "Q" -> "q" [] c = "R" -> "r" [] c = "S" -> "s" [] c = "T" -> "t"
      [] c = "U" -> "u" [] c = "V" -> "v" [] c = "W" -> "w" [] c = "X" -> "x"
      [] c = "Y" -> "y" [] c = "Z" -> "z" [] OTHER -> c

\* str.upper() on one character
UpperChar(c) ==
    CASE c = "a" -> "A" [] c = "b" -> "B" [] c = "c" -> "C" [] c = "d" -> "D"
      [] c = "e" -> "E" [] c = "f" -> "F" [] c = "g" -> "G" [] c = "h" -> "H"
      [] c = "i" -> "I" [] c = "j" -> "J" [] c = "k" -> "K" [] c = "l" -> "L"
      [] c = "m" -> "M" [] c = "n" -> "N" [] c = "o" -> "O" [] c = "p" -> "P"
      [] c = "q" -> "Q" [] c = "r" -> "R" [] c = "s" -> "S" [] c = "t" -> "T"
      [] c = "u" -> "U" [] c = "v" -> "V" [] c = "w" -> "W" [] c = "x" -> "X"
      [] c = "y" -> "Y" [] c = "z" -> "Z" [] OTHER -> c

\* s.lower()
Lower(s) == [i \in 1..Len(s) |-> LowerChar(s[i])]

\* s.upper()
Upper(s) == [i \in 1..Len(s) |-> UpperChar(s[i])]

\* s[:n] for n >= 0
Take(s, n) == SubSeq(s, 1, IF n < Len(s) THEN n ELSE Len(s))

\* s.find(old, from): the first index >= from where old occurs in s, 0 if none
NextMatch(s, old, from) ==
    LET M == {i \in from..(Len(s) - Len(old) + 1) :
                 s[i] = old[1] /\ SubSeq(s, i, i + Len(old) - 1) = old}
    IN  IF M = {} THEN 0 ELSE CHOOSE i \in M : \A j \in M : i <= j

\* old in s
Contains(s, old) == NextMatch(s, old, 1) # 0

RECURSIVE ReplaceFrom(_, _, _, _)
ReplaceFrom(s, old, new, from) ==
    LET m == NextMatch(s, old, from)
    IN  IF m = 0
        THEN SubSeq(s, from, Len(s))
        ELSE SubSeq(s, from, m - 1) \o new \o ReplaceFrom(s, old, new, m + Len(old))

\* s.replace(old, new): leftmost non-overlapping occurrences, old non-empty
Replace(s, old, new) == ReplaceFrom(s, old, new, 1)

RECURSIVE SplitFrom(_, _, _)
SplitFrom(s, sep, from) ==
    LET m == NextMatch(s, sep, from)
    IN  IF m = 0
        THEN <<SubSeq(s, from, Len(s))>>
        ELSE <<SubSeq(s, from, m - 1)>> \o SplitFrom(s, sep, m + Len(sep))

\* s.split(sep)
Split(s, sep) == SplitFrom(s, sep, 1)

\* dict.get(key, default)
Get(d, key, default) == IF key \in DOMAIN d THEN d[key] ELSE default

DigitValue ==
    "0" :> 0 @@ "1" :> 1 @@ "2" :> 2 @@ "3" :> 3 @@ "4" :> 4
    @@ "5" :> 5 @@ "6" :> 6 @@ "7" :> 7 @@ "8" :> 8 @@ "9" :> 9

\* int(s) accepts a non-empty string of decimal digits (else ValueError)
IsInt(s) == Len(s) > 0 /\ \A i \in 1..Len(s) : s[i] \in DOMAIN DigitValue

RECURSIVE ParseInt(_)
ParseInt(s) ==
    IF Len(s) = 0 THEN 0
    ELSE 10 * ParseInt(SubSeq(s, 1, Len(s) - 1)) + DigitValue[s[Len(s)]]

(***************************************************************************)
(* MultiPlatformContentGenerator.__init__: the platform catalog.          *)
(* In a template the single element "{context}" is the placeholder.       *)
(***************************************************************************)

platform_templates ==
       "instagram" :> (
           "new-release" :> <<
            <<"U+1F3B5"," ","J","u","s","t"," ","d","r","o","p","p","e","d"," ","s","o","m","e","t","h","i","n","g"," ","s","p","e","c","i","a","l"," ","f","o","r"," ","y","o","u"," ","a","l","l","!"," ","{context}","."," ","W","h","a","t"," ","d","o"," ","y","o","u"," ","h","e","a","r"," ","w","h","e","n"," ","y","o","u"," ","l","i","s","t","e","n","?"," ","D","r","o","p"," ","a"," ","c","o","m","m","e","n","t"," ","a","n","d"," ","l","e","t"," ","m","e"," ","k","n","o","w"," ","w","h","i","c","h"," ","p","a","r","t"," ","h","i","t","s"," ","d","i","f","f","e","r","e","n","t"," ","f","o","r"," ","y","o","u","!"," ","U+1F525","\n","\n","S","t","r","e","a","m"," ","i","t"," ","n","o","w"," ","-"," ","l","i","n","k"," ","i","n"," ","b","i","o","!">>,
            <<"N","e","w"," ","m","u","s","i","c"," ","a","l","e","r","t","!"," ","U+1F6A8"," ","{context}"," ","i","s"," ","f","i","n","a","l","l","y"," ","h","e","r","e"," ","a","n","d"," ","I","'","m"," ","b","e","y","o","n","d"," ","e","x","c","i","t","e","d"," ","t","o"," ","s","h","a","r","e"," ","t","h","i","s"," ","w","i","t","h"," ","y","o","u","."," ","T","h","i","s"," ","t","r","a","c","k"," ","r","e","p","r","e","s","e","n","t","s"," ","e","x","a","c","t","l","y"," ","w","h","e","r","e"," ","I"," ","a","m"," ","r","i","g","h","t"," ","n","o","w"," ","a","s"," ","a","n"," ","a","r","t","i","s","t",".","\n","\n","W","h","a","t","'","s"," ","y","o","u","r"," ","f","i","r","s","t"," ","i","m","p","r","e","s","s","i","o","n","?"," ","L","e","t"," ","m","e"," ","k","n","o","w","!"," ","U+1F3B6">>
           >>
        @@ "studio-session" :> <<
            <<"L","a","t","e"," ","n","i","g","h","t"," ","s","t","u","d","i","o"," ","v","i","b","e","s"," ","h","i","t","t","i","n","g"," ","d","i","f","f","e","r","e","n","t"," ","U+2728"," ","{context}","."," ","S","o","m","e","t","i","m","e","s"," ","t","h","e"," ","m","a","g","i","c"," ","h","a","p","p","e","n","s"," ","w","h","e","n"," ","y","o","u"," ","l","e","a","s","t"," ","e","x","p","e","c","t"," ","i","t",".","\n","\n","T","h","i","s"," ","i","s"," ","w","h","e","r","e"," ","t","h","e"," ","r","e","a","l"," ","w","o","r","k"," ","h","a","p","p","e","n","s"," ","-"," ","b","e","h","i","n","d"," ","t","h","e"," ","s","c","e","n","e","s",","," ","f","i","n","d","i","n","g"," ","t","h","a","t"," ","p","e","r","f","e","c","t"," ","s","o","u","n","d",".","\n","\n","W","h","a","t","'","s"," ","y","o","u","r"," ","c","r","e","a","t","i","v","e"," ","s","p","a","c","e"," ","l","o","o","k"," ","l","i","k","e","?"," ","S","h","o","w"," ","m","e","!"," ","U+1F447">>
           >>
        @@ "fan-appreciation" :> <<
            <<"Y","'","a","l","l"," ","a","r","e"," ","a","b","s","o","l","u","t","e","l","y"," ","i","n","c","r","e","d","i","b","l","e"," ","U+1F64F"," ","{context}","."," ","S","e","e","i","n","g"," ","y","o","u","r"," ","s","u","p","p","o","r","t",","," ","h","e","a","r","i","n","g"," ","y","o","u"," ","c","o","n","n","e","c","t"," ","w","i","t","h"," ","t","h","e"," ","m","u","s","i","c"," ","-"," ","t","h","i","s"," ","i","s"," ","w","h","y"," ","I"," ","d","o"," ","w","h","a","t"," ","I"," ","d","o",".","\n","\n","Y","o","u","'","r","e"," ","n","o","t"," ","j","u","s","t"," ","f","a","n","s",","," ","y","o","u","'","r","e"," ","f","a","m","i","l","y","."," ","W","h","a","t","'","s"," ","y","o","u","r"," ","f","a","v","o","r","i","t","e"," ","t","r","a","c","k"," ","r","i","g","h","t"," ","n","o","w","?"," ","U+2764","U+FE0F">>
           >>
       )
    @@ "tiktok" :> (
           "new-release" :> <<
            <<"P","O","V",":"," ","Y","o","u"," ","j","u","s","t"," ","d","r","o","p","p","e","d"," ","y","o","u","r"," ","b","e","s","t"," ","t","r","a","c","k"," ","y","e","t"," ","U+1F3B5"," ","{context}"," ","#","N","e","w","M","u","s","i","c"," ","#","M","u","s","i","c","T","o","k"," ","#","A","r","t","i","s","t","L","i","f","e">>,
            <<"W","h","e","n"," ","t","h","e"," ","s","o","n","g"," ","y","o","u","'","v","e"," ","b","e","e","n"," ","w","o","r","k","i","n","g"," ","o","n"," ","f","o","r"," ","m","o","n","t","h","s"," ","f","i","n","a","l","l","y"," ","d","r","o","p","s",".",".","."," ","{context}"," ","U+2728"," ","#","M","u","s","i","c","P","r","o","d","u","c","e","r"," ","#","N","e","w","R","e","l","e","a","s","e"," ","#","V","i","r","a","l">>
           >>
        @@ "studio-session" :> <<
            <<"S","t","u","d","i","o"," ","s","e","s","s","i","o","n","s"," ","a","t"," ","3","a","m"," ","h","i","t"," ","d","i","f","f","e","r","e","n","t"," ","U+1F39B","U+FE0F"," ","{context}"," ","#","S","t","u","d","i","o","L","i","f","e"," ","#","M","u","s","i","c","M","a","k","i","n","g"," ","#","B","e","h","i","n","d","T","h","e","S","c","e","n","e","s"," ","#","P","r","o","d","u","c","e","r">>,
            <<"W","h","e","n"," ","i","n","s","p","i","r","a","t","i","o","n"," ","s","t","r","i","k","e","s"," ","i","n"," ","t","h","e"," ","s","t","u","d","i","o",".",".","."," ","{context}"," ","U+1F525"," ","#","M","u","s","i","c","P","r","o","c","e","s","s"," ","#","R","e","c","o","r","d","i","n","g"," ","#","C","r","e","a","t","i","v","e">>
           >>
        @@ "fan-appreciation" :> <<
            <<"Y","'","a","l","l"," ","r","e","a","l","l","y"," ","s","a","i","d"," ","'","w","e"," ","s","e","e"," ","y","o","u","'"," ","U+1F97A"," ","{context}"," ","#","G","r","a","t","e","f","u","l"," ","#","M","u","s","i","c","F","a","m","i","l","y"," ","#","B","l","e","s","s","e","d"," ","#","A","r","t","i","s","t">>,
            <<"T","h","e"," ","s","u","p","p","o","r","t"," ","h","a","s"," ","b","e","e","n"," ","U","N","R","E","A","L"," ","l","a","t","e","l","y"," ","U+1F4AB"," ","{context}"," ","#","T","h","a","n","k","Y","o","u"," ","#","M","u","s","i","c","C","o","m","m","u","n","i","t","y"," ","#","L","o","v","e">>
           >>
       )
    @@ "twitter" :> (
           "new-release" :> <<
            <<"U+1F3B5"," ","N","E","W"," ","M","U","S","I","C"," ","O","U","T"," ","N","O","W","!"," ","{context}"," ","-"," ","t","h","i","s"," ","o","n","e","'","s"," ","b","e","e","n"," ","b","r","e","w","i","n","g"," ","f","o","r"," ","a"," ","w","h","i","l","e"," ","a","n","d"," ","I","'","m"," ","f","i","n","a","l","l","y"," ","r","e","a","d","y"," ","t","o"," ","s","h","a","r","e"," ","i","t"," ","w","i","t","h"," ","t","h","e"," ","w","o","r","l","d","."," ","W","h","a","t"," ","d","o"," ","y","o","u"," ","t","h","i","n","k","?">>,
            <<"J","U","S","T"," ","D","R","O","P","P","E","D",":"," ","{context}"," ","U+1F6A8"," ","B","e","e","n"," ","w","o","r","k","i","n","g"," ","o","n"," ","t","h","i","s"," ","f","o","r"," ","m","o","n","t","h","s","."," ","H","o","p","e"," ","i","t"," ","h","i","t","s"," ","a","s"," ","h","a","r","d"," ","f","o","r"," ","y","o","u"," ","a","s"," ","i","t"," ","d","o","e","s"," ","f","o","r"," ","m","e"," ","U+1F525">>
           >>
        @@ "studio-session" :> <<
            <<"4","a","m"," ","s","t","u","d","i","o"," ","s","e","s","s","i","o","n","s"," ","a","r","e"," ","w","h","e","r","e"," ","t","h","e"," ","m","a","g","i","c"," ","h","a","p","p","e","n","s"," ","U+2728"," ","{context}"," ","#","S","t","u","d","i","o","L","i","f","e">>,
            <<"C","u","r","r","e","n","t","l","y",":"," ","{context}"," ","a","n","d"," ","q","u","e","s","t","i","o","n","i","n","g"," ","a","l","l"," ","m","y"," ","l","i","f","e"," ","c","h","o","i","c","e","s"," ","b","u","t"," ","i","n"," ","t","h","e"," ","b","e","s","t"," ","w","a","y"," ","U+1F605"," ","#","M","u","s","i","c","P","r","o","d","u","c","e","r">>
           >>
        @@ "fan-appreciation" :> <<
            <<"S","t","i","l","l"," ","c","a","n","'","t"," ","b","e","l","i","e","v","e"," ","t","h","e"," ","s","u","p","p","o","r","t"," ","l","a","t","e","l","y"," ","U+1F64F"," ","{context}"," ","-"," ","y","o","u"," ","a","l","l"," ","a","r","e"," ","t","h","e"," ","r","e","a","s","o","n"," ","I"," ","k","e","e","p"," ","c","r","e","a","t","i","n","g">>,
            <<"G","r","a","t","e","f","u","l"," ","i","s"," ","a","n"," ","u","n","d","e","r","s","t","a","t","e","m","e","n","t"," ","U+1F49C"," ","{context}"," ","#","M","u","s","i","c","F","a","m","i","l","y">>
           >>
       )
    @@ "facebook" :> (
           "new-release" :> <<
            <<"I","'","m"," ","e","x","c","i","t","e","d"," ","t","o"," ","s","h","a","r","e"," ","m","y"," ","l","a","t","e","s","t"," ","t","r","a","c","k"," ","w","i","t","h"," ","y","o","u"," ","a","l","l","!"," ","{context}","."," ","T","h","i","s"," ","s","o","n","g"," ","h","a","s"," ","b","e","e","n"," ","a"," ","l","a","b","o","r"," ","o","f"," ","l","o","v","e",","," ","a","n","d"," ","I"," ","c","a","n","'","t"," ","w","a","i","t"," ","f","o","r"," ","y","o","u"," ","t","o"," ","e","x","p","e","r","i","e","n","c","e"," ","t","h","e"," ","j","o","u","r","n","e","y"," ","i","t"," ","t","a","k","e","s"," ","y","o","u"," ","o","n",".","\n","\n","M","u","s","i","c"," ","h","a","s"," ","a","l","w","a","y","s"," ","b","e","e","n"," ","m","y"," ","w","a","y"," ","o","f"," ","c","o","n","n","e","c","t","i","n","g"," ","w","i","t","h"," ","p","e","o","p","l","e",","," ","a","n","d"," ","t","h","i","s"," ","t","r","a","c","k"," ","i","s"," ","n","o"," ","e","x","c","e","p","t","i","o","n","."," ","L","e","t"," ","m","e"," ","k","n","o","w"," ","w","h","a","t"," ","y","o","u"," ","t","h","i","n","k"," ","i","n"," ","t","h","e"," ","c","o","m","m","e","n","t","s","!">>,
            <<"N","e","w"," ","m","u","s","i","c"," ","i","s"," ","h","e","r","e","!"," ","U+1F3B5"," ","{context}"," ","r","e","p","r","e","s","e","n","t","s"," ","a"," ","n","e","w"," ","c","h","a","p","t","e","r"," ","i","n"," ","m","y"," ","a","r","t","i","s","t","i","c"," ","j","o","u","r","n","e","y","."," ","I","'","v","e"," ","p","o","u","r","e","d"," ","m","y"," ","h","e","a","r","t"," ","i","n","t","o"," ","e","v","e","r","y"," ","n","o","t","e",","," ","e","v","e","r","y"," ","l","y","r","i","c",","," ","e","v","e","r","y"," ","b","e","a","t",".","\n","\n","T","h","a","n","k"," ","y","o","u"," ","f","o","r"," ","b","e","i","n","g"," ","p","a","r","t"," ","o","f"," ","t","h","i","s"," ","i","n","c","r","e","d","i","b","l","e"," ","j","o","u","r","n","e","y"," ","w","i","t","h"," ","m","e","."," ","Y","o","u","r"," ","s","u","p","p","o","r","t"," ","m","e","a","n","s"," ","e","v","e","r","y","t","h","i","n","g",".">>
           >>
        @@ "studio-session" :> <<
            <<"T","a","k","i","n","g"," ","y","o","u"," ","b","e","h","i","n","d"," ","t","h","e"," ","s","c","e","n","e","s"," ","t","o","d","a","y","!"," ","{context}","."," ","T","h","e","r","e","'","s"," ","s","o","m","e","t","h","i","n","g"," ","m","a","g","i","c","a","l"," ","a","b","o","u","t"," ","t","h","e"," ","c","r","e","a","t","i","v","e"," ","p","r","o","c","e","s","s"," ","-"," ","t","h","o","s","e"," ","l","a","t","e"," ","n","i","g","h","t","s",","," ","t","h","e"," ","m","o","m","e","n","t","s"," ","o","f"," ","i","n","s","p","i","r","a","t","i","o","n",","," ","t","h","e"," ","c","h","a","l","l","e","n","g","e","s"," ","t","h","a","t"," ","p","u","s","h"," ","y","o","u"," ","t","o"," ","g","r","o","w"," ","a","s"," ","a","n"," ","a","r","t","i","s","t",".","\n","\n","W","h","a","t"," ","d","o","e","s"," ","y","o","u","r"," ","c","r","e","a","t","i","v","e"," ","p","r","o","c","e","s","s"," ","l","o","o","k"," ","l","i","k","e","?"," ","I","'","d"," ","l","o","v","e"," ","t","o"," ","h","e","a","r"," ","a","b","o","u","t"," ","i","t","!">>,
            <<"S","t","u","d","i","o"," ","l","i","f","e"," ","u","p","d","a","t","e",":"," ","{context}","."," ","T","h","e"," ","c","r","e","a","t","i","v","e"," ","p","r","o","c","e","s","s"," ","i","s"," ","n","e","v","e","r"," ","l","i","n","e","a","r",","," ","b","u","t"," ","t","h","a","t","'","s"," ","w","h","a","t"," ","m","a","k","e","s"," ","i","t"," ","b","e","a","u","t","i","f","u","l","."," ","E","v","e","r","y"," ","s","e","s","s","i","o","n"," ","b","r","i","n","g","s"," ","n","e","w"," ","d","i","s","c","o","v","e","r","i","e","s",","," ","n","e","w"," ","s","o","u","n","d","s",","," ","n","e","w"," ","p","o","s","s","i","b","i","l","i","t","i","e","s",".">>
           >>
        @@ "fan-appreciation" :> <<
            <<"I"," ","w","a","n","t"," ","t","o"," ","t","a","k","e"," ","a"," ","m","o","m","e","n","t"," ","t","o"," ","e","x","p","r","e","s","s"," ","m","y"," ","g","e","n","u","i","n","e"," ","g","r","a","t","i","t","u","d","e","."," ","{context}","."," ","E","v","e","r","y"," ","l","i","k","e",","," ","e","v","e","r","y"," ","s","h","a","r","e",","," ","e","v","e","r","y"," ","c","o","m","m","e","n","t"," ","-"," ","i","t"," ","a","l","l"," ","m","a","t","t","e","r","s"," ","m","o","r","e"," ","t","h","a","n"," ","y","o","u"," ","k","n","o","w",".","\n","\n","M","u","s","i","c"," ","i","s"," ","m","e","a","n","t"," ","t","o"," ","b","e"," ","s","h","a","r","e","d",","," ","a","n","d"," ","h","a","v","i","n","g"," ","a"," ","c","o","m","m","u","n","i","t","y"," ","l","i","k","e"," ","t","h","i","s"," ","m","a","k","e","s"," ","e","v","e","r","y"," ","s","o","n","g"," ","w","o","r","t","h"," ","c","r","e","a","t","i","n","g","."," ","T","h","a","n","k"," ","y","o","u"," ","f","o","r"," ","b","e","i","n","g"," ","p","a","r","t"," ","o","f"," ","t","h","i","s"," ","j","o","u","r","n","e","y",".">>,
            <<"F","e","e","l","i","n","g"," ","i","n","c","r","e","d","i","b","l","y"," ","b","l","e","s","s","e","d"," ","t","o","d","a","y","."," ","{context}","."," ","T","h","i","s"," ","c","o","m","m","u","n","i","t","y"," ","w","e","'","v","e"," ","b","u","i","l","t"," ","t","o","g","e","t","h","e","r"," ","i","s"," ","s","o","m","e","t","h","i","n","g"," ","s","p","e","c","i","a","l",","," ","a","n","d"," ","I"," ","d","o","n","'","t"," ","t","a","k","e"," ","i","t"," ","f","o","r"," ","g","r","a","n","t","e","d",".","\n","\n","Y","o","u","r"," ","s","u","p","p","o","r","t"," ","n","o","t"," ","o","n","l","y"," ","h","e","l","p","s"," ","m","e"," ","a","s"," ","a","n"," ","a","r","t","i","s","t"," ","b","u","t"," ","i","n","s","p","i","r","e","s"," ","m","e"," ","t","o"," ","k","e","e","p"," ","p","u","s","h","i","n","g"," ","b","o","u","n","d","a","r","i","e","s"," ","a","n","d"," ","c","r","e","a","t","i","n","g"," ","m","u","s","i","c"," ","t","h","a","t"," ","m","a","t","t","e","r","s",".">>
           >>
       )
    @@ "linkedin" :> (
           "new-release" :> <<
            <<"E","x","c","i","t","e","d"," ","t","o"," ","s","h","a","r","e"," ","m","y"," ","l","a","t","e","s","t"," ","m","u","s","i","c"," ","r","e","l","e","a","s","e","!"," ","{context}","."," ","A","s"," ","a","n"," ","i","n","d","e","p","e","n","d","e","n","t"," ","a","r","t","i","s","t",","," ","e","v","e","r","y"," ","r","e","l","e","a","s","e"," ","i","s"," ","b","o","t","h"," ","a"," ","c","r","e","a","t","i","v","e"," ","m","i","l","e","s","t","o","n","e"," ","a","n","d"," ","a"," ","b","u","s","i","n","e","s","s"," ","a","c","h","i","e","v","e","m","e","n","t",".","\n","\n","T","h","e"," ","m","u","s","i","c"," ","i","n","d","u","s","t","r","y"," ","c","o","n","t","i","n","u","e","s"," ","t","o"," ","e","v","o","l","v","e",","," ","a","n","d"," ","I","'","m"," ","g","r","a","t","e","f","u","l"," ","f","o","r"," ","p","l","a","t","f","o","r","m","s"," ","t","h","a","t"," ","a","l","l","o","w"," ","a","r","t","i","s","t","s"," ","t","o"," ","c","o","n","n","e","c","t"," ","d","i","r","e","c","t","l","y"," ","w","i","t","h"," ","t","h","e","i","r"," ","a","u","d","i","e","n","c","e","."," ","#","M","u","s","i","c","B","u","s","i","n","e","s","s"," ","#","I","n","d","e","p","e","n","d","e","n","t","A","r","t","i","s","t">>,
            <<"N","e","w"," ","m","u","s","i","c"," ","i","s"," ","l","i","v","e","!"," ","{context}","."," ","B","e","h","i","n","d"," ","e","v","e","r","y"," ","s","o","n","g"," ","i","s"," ","m","o","n","t","h","s"," ","o","f"," ","c","r","e","a","t","i","v","e"," ","w","o","r","k",","," ","c","o","l","l","a","b","o","r","a","t","i","o","n",","," ","a","n","d"," ","s","t","r","a","t","e","g","i","c"," ","p","l","a","n","n","i","n","g",".","\n","\n","F","o","r"," ","f","e","l","l","o","w"," ","c","r","e","a","t","i","v","e","s"," ","a","n","d"," ","e","n","t","r","e","p","r","e","n","e","u","r","s",":"," ","w","h","a","t","'","s"," ","y","o","u","r"," ","a","p","p","r","o","a","c","h"," ","t","o"," ","l","a","u","n","c","h","i","n","g"," ","n","e","w"," ","p","r","o","j","e","c","t","s","?"," ","#","C","r","e","a","t","i","v","e","E","n","t","r","e","p","r","e","n","e","u","r"," ","#","M","u","s","i","c","I","n","d","u","s","t","r","y">>
           >>
        @@ "studio-session" :> <<
            <<"B","e","h","i","n","d"," ","t","h","e"," ","s","c","e","n","e","s"," ","o","f"," ","m","u","s","i","c"," ","p","r","o","d","u","c","t","i","o","n",":"," ","{context}","."," ","T","h","e"," ","c","r","e","a","t","i","v","e"," ","p","r","o","c","e","s","s"," ","r","e","q","u","i","r","e","s"," ","b","o","t","h"," ","a","r","t","i","s","t","i","c"," ","v","i","s","i","o","n"," ","a","n","d"," ","t","e","c","h","n","i","c","a","l"," ","e","x","e","c","u","t","i","o","n",".","\n","\n","E","v","e","r","y"," ","s","t","u","d","i","o"," ","s","e","s","s","i","o","n"," ","i","s"," ","a"," ","l","e","s","s","o","n"," ","i","n"," ","p","r","o","j","e","c","t"," ","m","a","n","a","g","e","m","e","n","t",","," ","c","r","e","a","t","i","v","e"," ","p","r","o","b","l","e","m","-","s","o","l","v","i","n","g",","," ","a","n","d"," ","c","o","l","l","a","b","o","r","a","t","i","o","n","."," ","#","M","u","s","i","c","P","r","o","d","u","c","t","i","o","n"," ","#","C","r","e","a","t","i","v","e","P","r","o","c","e","s","s">>,
            <<"S","t","u","d","i","o"," ","i","n","s","i","g","h","t","s",":"," ","{context}","."," ","B","u","i","l","d","i","n","g"," ","a"," ","m","u","s","i","c"," ","c","a","r","e","e","r"," ","i","n","v","o","l","v","e","s"," ","c","o","n","s","t","a","n","t"," ","l","e","a","r","n","i","n","g"," ","a","n","d"," ","a","d","a","p","t","a","t","i","o","n",".","\n","\n","T","h","e"," ","i","n","t","e","r","s","e","c","t","i","o","n"," ","o","f"," ","c","r","e","a","t","i","v","i","t","y"," ","a","n","d"," ","t","e","c","h","n","o","l","o","g","y"," ","c","o","n","t","i","n","u","e","s"," ","t","o"," ","s","h","a","p","e"," ","h","o","w"," ","w","e"," ","c","r","e","a","t","e"," ","a","n","d"," ","s","h","a","r","e"," ","m","u","s","i","c","."," ","#","M","u","s","i","c","T","e","c","h"," ","#","I","n","n","o","v","a","t","i","o","n">>
           >>
        @@ "fan-appreciation" :> <<
            <<"R","e","f","l","e","c","t","i","n","g"," ","o","n"," ","r","e","c","e","n","t"," ","m","i","l","e","s","t","o","n","e","s",":"," ","{context}","."," ","B","u","i","l","d","i","n","g"," ","a"," ","s","u","s","t","a","i","n","a","b","l","e"," ","m","u","s","i","c"," ","c","a","r","e","e","r"," ","i","s"," ","o","n","l","y"," ","p","o","s","s","i","b","l","e"," ","w","i","t","h"," ","g","e","n","u","i","n","e"," ","c","o","m","m","u","n","i","t","y"," ","s","u","p","p","o","r","t",".","\n","\n","G","r","a","t","e","f","u","l"," ","f","o","r"," ","e","v","e","r","y","o","n","e"," ","w","h","o"," ","h","a","s"," ","b","e","e","n"," ","p","a","r","t"," ","o","f"," ","t","h","i","s"," ","j","o","u","r","n","e","y"," ","-"," ","f","r","o","m"," ","i","n","d","u","s","t","r","y"," ","p","r","o","f","e","s","s","i","o","n","a","l","s"," ","t","o"," ","d","e","d","i","c","a","t","e","d"," ","l","i","s","t","e","n","e","r","s","."," ","#","M","u","s","i","c","C","o","m","m","u","n","i","t","y"," ","#","E","n","t","r","e","p","r","e","n","e","u","r","s","h","i","p">>,
            <<"C","o","m","m","u","n","i","t","y"," ","u","p","d","a","t","e",":"," ","{context}","."," ","S","u","c","c","e","s","s"," ","i","n"," ","t","h","e"," ","c","r","e","a","t","i","v","e"," ","i","n","d","u","s","t","r","i","e","s"," ","i","s"," ","b","u","i","l","t"," ","o","n"," ","a","u","t","h","e","n","t","i","c"," ","r","e","l","a","t","i","o","n","s","h","i","p","s"," ","a","n","d"," ","c","o","n","s","i","s","t","e","n","t"," ","v","a","l","u","e"," ","c","r","e","a","t","i","o","n",".","\n","\n","T","h","a","n","k"," ","y","o","u"," ","t","o"," ","e","v","e","r","y","o","n","e"," ","w","h","o"," ","c","o","n","t","i","n","u","e","s"," ","t","o"," ","s","u","p","p","o","r","t"," ","i","n","d","e","p","e","n","d","e","n","t"," ","a","r","t","i","s","t","r","y","."," ","#","I","n","d","e","p","e","n","d","e","n","t","A","r","t","i","s","t"," ","#","C","o","m","m","u","n","i","t","y">>
           >>
       )

platform_hashtags ==
       "instagram" :> [
        base |-> <<<<"m","u","s","i","c">>, <<"a","r","t","i","s","t">>, <<"m","u","s","i","c","i","a","n">>, <<"n","e","w","m","u","s","i","c">>, <<"s","o","n","g","w","r","i","t","e","r">>, <<"p","r","o","d","u","c","e","r">>>>,
        genre_tags |-> (
               <<"h","i","p","-","h","o","p">> :> <<<<"h","i","p","h","o","p">>, <<"r","a","p">>, <<"b","a","r","s">>, <<"f","l","o","w">>, <<"b","e","a","t","s">>, <<"n","e","w","r","a","p">>>>
            @@ <<"p","o","p">> :> <<<<"p","o","p","m","u","s","i","c">>, <<"n","e","w","p","o","p">>, <<"m","a","i","n","s","t","r","e","a","m">>, <<"c","a","t","c","h","y">>, <<"r","a","d","i","o">>>>
            @@ <<"r","&","b">> :> <<<<"r","n","b">>, <<"s","o","u","l">>, <<"s","m","o","o","t","h">>, <<"v","o","c","a","l","s">>, <<"r","h","y","t","h","m">>>>
            @@ <<"i","n","d","i","e">> :> <<<<"i","n","d","i","e","m","u","s","i","c">>, <<"i","n","d","e","p","e","n","d","e","n","t">>, <<"a","l","t","e","r","n","a","t","i","v","e">>, <<"n","e","w","a","r","t","i","s","t">>>>
            @@ <<"e","l","e","c","t","r","o","n","i","c">> :> <<<<"e","l","e","c","t","r","o","n","i","c">>, <<"e","d","m">>, <<"s","y","n","t","h">>, <<"p","r","o","d","u","c","e","r">>, <<"b","e","a","t","s">>>>
            @@ <<"r","o","c","k">> :> <<<<"r","o","c","k","m","u","s","i","c">>, <<"g","u","i","t","a","r">>, <<"a","l","t","e","r","n","a","t","i","v","e">>, <<"l","i","v","e","m","u","s","i","c">>>>
        )]
    @@ "tiktok" :> [
        base |-> <<<<"m","u","s","i","c">>, <<"m","u","s","i","c","t","o","k">>, <<"a","r","t","i","s","t">>, <<"n","e","w","m","u","s","i","c">>, <<"v","i","r","a","l">>, <<"f","y","p">>>>,
        genre_tags |-> (
               <<"h","i","p","-","h","o","p">> :> <<<<"h","i","p","h","o","p","t","o","k">>, <<"r","a","p">>, <<"b","a","r","s">>, <<"f","l","o","w">>, <<"b","e","a","t","s">>>>
            @@ <<"p","o","p">> :> <<<<"p","o","p","t","o","k">>, <<"p","o","p","m","u","s","i","c">>, <<"c","a","t","c","h","y">>, <<"m","a","i","n","s","t","r","e","a","m">>>>
            @@ <<"r","&","b">> :> <<<<"r","n","b","t","o","k">>, <<"s","o","u","l">>, <<"v","o","c","a","l","s">>, <<"s","m","o","o","t","h">>>>
            @@ <<"i","n","d","i","e">> :> <<<<"i","n","d","i","e","t","o","k">>, <<"i","n","d","e","p","e","n","d","e","n","t">>, <<"a","l","t","e","r","n","a","t","i","v","e">>>>
            @@ <<"e","l","e","c","t","r","o","n","i","c">> :> <<<<"e","d","m">>, <<"e","l","e","c","t","r","o","n","i","c","t","o","k">>, <<"s","y","n","t","h">>, <<"p","r","o","d","u","c","e","r">>>>
            @@ <<"r","o","c","k">> :> <<<<"r","o","c","k","t","o","k">>, <<"g","u","i","t","a","r">>, <<"a","l","t","e","r","n","a","t","i","v","e">>>>
        )]
    @@ "twitter" :> [
        base |-> <<<<"M","u","s","i","c">>, <<"N","e","w","M","u","s","i","c">>, <<"A","r","t","i","s","t">>, <<"M","u","s","i","c","i","a","n">>>>,
        genre_tags |-> (
               <<"h","i","p","-","h","o","p">> :> <<<<"H","i","p","H","o","p">>, <<"R","a","p">>, <<"B","e","a","t","s">>>>
            @@ <<"p","o","p">> :> <<<<"P","o","p","M","u","s","i","c">>, <<"P","o","p">>>>
            @@ <<"r","&","b">> :> <<<<"R","n","B">>, <<"S","o","u","l">>>>
            @@ <<"i","n","d","i","e">> :> <<<<"I","n","d","i","e","M","u","s","i","c">>, <<"I","n","d","e","p","e","n","d","e","n","t">>>>
            @@ <<"e","l","e","c","t","r","o","n","i","c">> :> <<<<"E","l","e","c","t","r","o","n","i","c">>, <<"E","D","M">>>>
            @@ <<"r","o","c","k">> :> <<<<"R","o","c","k">>, <<"G","u","i","t","a","r">>>>
        )]
    @@ "facebook" :> [
        base |-> <<<<"m","u","s","i","c">>, <<"n","e","w","m","u","s","i","c">>, <<"a","r","t","i","s","t">>>>,
        genre_tags |-> (
               <<"h","i","p","-","h","o","p">> :> <<<<"h","i","p","h","o","p">>, <<"r","a","p">>>>
            @@ <<"p","o","p">> :> <<<<"p","o","p">>, <<"p","o","p","m","u","s","i","c">>>>
            @@ <<"r","&","b">> :> <<<<"r","n","b">>, <<"s","o","u","l">>>>
            @@ <<"i","n","d","i","e">> :> <<<<"i","n","d","i","e">>, <<"i","n","d","e","p","e","n","d","e","n","t">>>>
            @@ <<"e","l","e","c","t","r","o","n","i","c">> :> <<<<"e","l","e","c","t","r","o","n","i","c">>, <<"e","d","m">>>>
            @@ <<"r","o","c","k">> :> <<<<"r","o","c","k">>, <<"l","i","v","e","m","u","s","i","c">>>>
        )]
    @@ "linkedin" :> [
        base |-> <<<<"M","u","s","i","c">>, <<"C","r","e","a","t","i","v","e","I","n","d","u","s","t","r","y">>, <<"M","u","s","i","c","B","u","s","i","n","e","s","s">>, <<"I","n","d","e","p","e","n","d","e","n","t","A","r","t","i","s","t">>>>,
        genre_tags |-> (
               <<"h","i","p","-","h","o","p">> :> <<<<"H","i","p","H","o","p">>, <<"M","u","s","i","c","P","r","o","d","u","c","t","i","o","n">>>>
            @@ <<"p","o","p">> :> <<<<"P","o","p","M","u","s","i","c">>, <<"M","u","s","i","c","I","n","d","u","s","t","r","y">>>>
            @@ <<"r","&","b">> :> <<<<"R","n","B">>, <<"S","o","u","l","M","u","s","i","c">>>>
            @@ <<"i","n","d","i","e">> :> <<<<"I","n","d","i","e","M","u","s","i","c">>, <<"C","r","e","a","t","i","v","e","E","n","t","r","e","p","r","e","n","e","u","r">>>>
            @@ <<"e","l","e","c","t","r","o","n","i","c">> :> <<<<"E","l","e","c","t","r","o","n","i","c","M","u","s","i","c">>, <<"M","u","s","i","c","T","e","c","h">>>>
            @@ <<"r","o","c","k">> :> <<<<"R","o","c","k","M","u","s","i","c">>, <<"L","i","v","e","M","u","s","i","c">>>>
        )]

platform_specs ==
       "instagram" :> [max_caption |-> 2200, optimal_caption |-> 125, max_hashtags |-> 30]
    @@ "tiktok" :> [max_caption |-> 150, optimal_caption |-> 100, max_hashtags |-> 10]
    @@ "twitter" :> [max_caption |-> 280, optimal_caption |-> 240, max_hashtags |-> 5]
    @@ "facebook" :> [max_caption |-> 63206, optimal_caption |-> 400, max_hashtags |-> 10]
    @@ "linkedin" :> [max_caption |-> 3000, optimal_caption |-> 300, max_hashtags |-> 5]


Range(f) == {f[i] : i \in DOMAIN f}

(***************************************************************************)
(* create_artist_profile                                                  *)
(***************************************************************************)

\* the platform list written out in create_artist_profile
ProfilePlatforms == <<"instagram", "tiktok", "twitter", "facebook", "linkedin">>

\* the literal "music"
MusicTag == <<"m","u","s","i","c">>

\* genre_tags.get(genre.lower(), ["music"]) of one platform
genre_tags_of(platform, genre) ==
    Get(platform_hashtags[platform].genre_tags, Lower(genre), <<MusicTag>>)

\* [f"{stage_name.lower().replace(' ', '')}music", f"{genre}artist"]
brand_tags_of(stage_name, genre) ==
    << Replace(Lower(stage_name), <<" ">>, <<>>) \o MusicTag,
       genre \o <<"a","r","t","i","s","t">> >>

create_artist_profile(artist_id, stage_name, genre, brand_voice) ==
    [ artist_id   |-> artist_id,
      stage_name  |-> stage_name,
      genre       |-> genre,
      brand_voice |-> brand_voice,
      platforms   |-> ProfilePlatforms,
      hashtag_strategy |->
          [platform \in Range(ProfilePlatforms) |->
              [ brand |-> brand_tags_of(stage_name, genre),
                genre |-> genre_tags_of(platform, genre) ]],
      optimal_posting_times |->
          (   "instagram" :> <<"1","8",":","0","0">>
           @@ "tiktok"    :> <<"1","9",":","0","0">>
           @@ "twitter"   :> <<"1","2",":","0","0">>
           @@ "facebook"  :> <<"1","5",":","0","0">>
           @@ "linkedin"  :> <<"0","9",":","0","0">> ) ]

(***************************************************************************)
(* apply_brand_voice                                                      *)
(***************************************************************************)

voice_adjustments ==
    {"energetic", "introspective", "rebellious", "playful"}

apply_brand_voice(caption, brand_voice, platform) ==
    LET c == caption
        dot == <<".">>
        bang == <<"!">>
        amazing == <<"a","m","a","z","i","n","g">>
        incredible == <<"i","n","c","r","e","d","i","b","l","e">>
        Playful(emoji) == IF ~Contains(c, <<emoji>>) THEN c \o <<" ", emoji>> ELSE c
    IN
    IF brand_voice \notin voice_adjustments \/ platform \notin Range(ProfilePlatforms)
    THEN caption
    ELSE CASE brand_voice = "energetic" ->
              ( CASE platform = "instagram" ->
                       Replace(Replace(c, dot, bang), <<"?">>, <<"?","!">>)
                  [] platform = "tiktok" ->
                       IF Len(c) < 50 THEN Upper(c) ELSE Replace(c, dot, bang)
                  [] platform = "twitter" ->
                       Replace(Replace(c, amazing, Upper(amazing)),
                               incredible, Upper(incredible))
                  [] platform = "facebook" -> Replace(c, dot, bang)
                  [] platform = "linkedin" ->
                       Replace(c, <<"e","x","c","i","t","e","d">>,
                                  <<"t","h","r","i","l","l","e","d">>) )
           [] brand_voice = "introspective" ->
              ( CASE platform = "instagram" -> Replace(c, bang, dot)
                  [] platform = "tiktok" -> Replace(c, bang, <<".",".",".">>)
                  [] platform = "twitter" -> Replace(Lower(c), bang, dot)
                  [] platform = "facebook" -> c
                  [] platform = "linkedin" ->
                       Replace(c, <<"f","e","e","l">>,
                                  <<"r","e","f","l","e","c","t"," ","o","n">>) )
           [] brand_voice = "rebellious" ->
              ( CASE platform = "instagram" ->
                       Replace(Replace(c, amazing, <<"w","i","l","d">>),
                               incredible, <<"i","n","s","a","n","e">>)
                  [] platform = "tiktok" ->
                       Replace(Replace(c, <<"g","o","o","d">>, <<"f","i","r","e">>),
                               <<"g","r","e","a","t">>, <<"s","i","c","k">>)
                  [] platform = "twitter" ->
                       Replace(c, <<"n","i","c","e">>, <<"d","o","p","e">>)
                  [] platform = "facebook" ->
                       Replace(c, <<"t","r","a","d","i","t","i","o","n","a","l">>,
                                  <<"c","o","n","v","e","n","t","i","o","n","a","l">>)
                  [] platform = "linkedin" ->
                       Replace(c, <<"d","i","f","f","e","r","e","n","t">>,
                                  <<"i","n","n","o","v","a","t","i","v","e">>) )
           [] brand_voice = "playful" ->
              ( CASE platform = "instagram" -> Playful("U+1F604")
                  [] platform = "tiktok" -> Playful("U+1F602")
                  [] platform = "twitter" -> Playful("U+1F60A")
                  [] platform = "facebook" -> Playful("U+1F642")
                  [] platform = "linkedin" -> Playful("U+1F60A") )

(***************************************************************************)
(* generate_platform_hashtags                                             *)
(***************************************************************************)

theme_tags ==
       "new-release" :> (
               "instagram" :> <<<<"n","e","w","r","e","l","e","a","s","e">>, <<"m","u","s","i","c","d","r","o","p">>, <<"f","r","e","s","h","m","u","s","i","c">>>>
            @@ "tiktok" :> <<<<"n","e","w","m","u","s","i","c">>, <<"m","u","s","i","c","d","r","o","p">>, <<"v","i","r","a","l">>>>
            @@ "twitter" :> <<<<"N","e","w","M","u","s","i","c">>, <<"M","u","s","i","c","D","r","o","p">>>>
            @@ "facebook" :> <<<<"n","e","w","r","e","l","e","a","s","e">>, <<"m","u","s","i","c">>>>
            @@ "linkedin" :> <<<<"N","e","w","R","e","l","e","a","s","e">>, <<"M","u","s","i","c","L","a","u","n","c","h">>>>
       )
    @@ "studio-session" :> (
               "instagram" :> <<<<"s","t","u","d","i","o">>, <<"r","e","c","o","r","d","i","n","g">>, <<"b","e","h","i","n","d","t","h","e","s","c","e","n","e","s">>>>
            @@ "tiktok" :> <<<<"s","t","u","d","i","o","l","i","f","e">>, <<"m","u","s","i","c","m","a","k","i","n","g">>, <<"b","t","s">>>>
            @@ "twitter" :> <<<<"S","t","u","d","i","o">>, <<"R","e","c","o","r","d","i","n","g">>>>
            @@ "facebook" :> <<<<"s","t","u","d","i","o">>, <<"m","u","s","i","c","m","a","k","i","n","g">>>>
            @@ "linkedin" :> <<<<"S","t","u","d","i","o","W","o","r","k">>, <<"M","u","s","i","c","P","r","o","d","u","c","t","i","o","n">>>>
       )
    @@ "fan-appreciation" :> (
               "instagram" :> <<<<"g","r","a","t","e","f","u","l">>, <<"m","u","s","i","c","f","a","m","i","l","y">>, <<"b","l","e","s","s","e","d">>>>
            @@ "tiktok" :> <<<<"g","r","a","t","e","f","u","l">>, <<"t","h","a","n","k","f","u","l">>, <<"l","o","v","e">>>>
            @@ "twitter" :> <<<<"G","r","a","t","e","f","u","l">>, <<"T","h","a","n","k","Y","o","u">>>>
            @@ "facebook" :> <<<<"g","r","a","t","e","f","u","l">>, <<"c","o","m","m","u","n","i","t","y">>>>
            @@ "linkedin" :> <<<<"G","r","a","t","e","f","u","l">>, <<"C","o","m","m","u","n","i","t","y">>>>
       )


\* In the operators below profile, theme_name and context_text are the
\* parameters artist_profile, theme and context of the methods.

\* theme_specific_of with [] as the default of both get() calls
theme_specific_of_empty_default(theme_name, platform) ==
    IF theme_name \in DOMAIN theme_tags
    THEN Get(theme_tags[theme_name], platform, <<>>)
    ELSE <<>>

\* theme_tags.get(theme, {}).get(platform, ["music"])
theme_specific_of(theme_name, platform) ==
    IF theme_name \in DOMAIN theme_tags
    THEN Get(theme_tags[theme_name], platform, <<MusicTag>>)
    ELSE <<MusicTag>>

\* hashtags_extended with the theme tags added first
hashtags_extended_theme_first(platform, profile, theme_name) ==
    LET brand_tags == profile.hashtag_strategy[platform].brand
        genre_tags == profile.hashtag_strategy[platform].genre
        base_tags  == platform_hashtags[platform].base
        theme_specific == theme_specific_of(theme_name, platform)
    IN  Take(theme_specific, 2) \o Take(brand_tags, 2) \o Take(genre_tags, 3)
            \o Take(base_tags, 3)

\* hashtags after the four extend() calls
hashtags_extended(platform, profile, theme_name) ==
    LET brand_tags == profile.hashtag_strategy[platform].brand
        genre_tags == profile.hashtag_strategy[platform].genre
        base_tags  == platform_hashtags[platform].base
        theme_specific == theme_specific_of(theme_name, platform)
    IN  Take(brand_tags, 2) \o Take(genre_tags, 3) \o Take(base_tags, 3)
            \o Take(theme_specific, 2)

\* unique_hashtags_loop comparing the tags as they are, without lower()
RECURSIVE unique_hashtags_loop_case_sensitive(_, _, _, _)
unique_hashtags_loop_case_sensitive(hashtags, i, seen, unique_hashtags) ==
    IF i > Len(hashtags) THEN unique_hashtags
    ELSE LET tag == hashtags[i] IN
         IF tag \notin seen
         THEN unique_hashtags_loop_case_sensitive(hashtags, i + 1, seen \cup {tag},
                                                 Append(unique_hashtags, tag))
         ELSE unique_hashtags_loop_case_sensitive(hashtags, i + 1, seen,
                                                 unique_hashtags)

\* the loop "for tag in hashtags" from position i on
RECURSIVE unique_hashtags_loop(_, _, _, _)
unique_hashtags_loop(hashtags, i, seen, unique_hashtags) ==
    IF i > Len(hashtags) THEN unique_hashtags
    ELSE LET tag == hashtags[i] IN
         IF Lower(tag) \notin seen
         THEN unique_hashtags_loop(hashtags, i + 1, seen \cup {Lower(tag)},
                                   Append(unique_hashtags, tag))
         ELSE unique_hashtags_loop(hashtags, i + 1, seen, unique_hashtags)

\* the platform lookups of generate_platform_hashtags that raise KeyError
hashtags_key_error(platform, profile) ==
    \/ platform \notin DOMAIN platform_specs
    \/ platform \notin DOMAIN profile.hashtag_strategy
    \/ platform \notin DOMAIN platform_hashtags

\* generate_platform_hashtags cutting to max_tags before the duplicates go
generate_platform_hashtags_cut_first(platform, profile, theme_name) ==
    LET max_tags == platform_specs[platform].max_hashtags
        hashtags == hashtags_extended(platform, profile, theme_name)
    IN  unique_hashtags_loop(Take(hashtags, max_tags), 1, {}, <<>>)

generate_platform_hashtags(platform, profile, theme_name) ==
    LET max_tags == platform_specs[platform].max_hashtags
        hashtags == hashtags_extended(platform, profile, theme_name)
    IN  Take(unique_hashtags_loop(hashtags, 1, {}, <<>>), max_tags)

(***************************************************************************)
(* optimize_for_platform                                                  *)
(***************************************************************************)

optimize_for_platform(caption, platform) ==
    LET specs == platform_specs[platform]
        truncated ==
            IF Len(caption) > specs.max_caption
            THEN Take(caption, specs.max_caption - 3) \o <<".", ".", ".">>
            ELSE caption
    IN  IF platform = "twitter"
        THEN Replace(truncated, <<"\n", "\n">>, <<"\n">>)
        ELSE IF platform = "linkedin"
        THEN Replace(truncated, <<"\n">>, <<"\n", "\n">>)
        ELSE IF platform = "tiktok"
        THEN IF Len(truncated) > specs.optimal_caption
             THEN Split(truncated, <<".">>)[1] \o <<".">>
             ELSE truncated
        ELSE truncated

(***************************************************************************)
(* generate_platform_content                                              *)
(***************************************************************************)

\* platform_templates[platform].get(theme, [f"Working on something special! {context}"])
templates_of(platform, theme_name) ==
    Get(platform_templates[platform], theme_name,
        << <<"W","o","r","k","i","n","g"," ","o","n"," ","s","o","m","e","t","h","i","n","g"," ","s","p","e","c","i","a","l","!"," ","{context}">> >>)

\* template.format(context=context)
format(template, context_text) == Replace(template, <<"{context}">>, context_text)

\* the lookups of generate_platform_content that raise KeyError
content_key_error(platform, profile) ==
    \/ platform \notin DOMAIN platform_templates
    \/ hashtags_key_error(platform, profile)

\* generate_platform_content counting the characters of the caption before
\* optimize_for_platform
generate_platform_content_counting_early(platform, theme_name, context_text, profile, choice) ==
    LET templates == templates_of(platform, theme_name)
        base_caption == format(templates[choice], context_text)
        caption == apply_brand_voice(base_caption, profile.brand_voice, platform)
        hashtags == generate_platform_hashtags(platform, profile, theme_name)
        optimized_caption == optimize_for_platform(caption, platform)
    IN  [ platform        |-> platform,
          caption         |-> optimized_caption,
          hashtags        |-> hashtags,
          character_count |-> Len(caption),
          hashtag_count   |-> Len(hashtags) ]

\* choice is the index random.choice picks among the templates
generate_platform_content(platform, theme_name, context_text, profile, choice) ==
    LET templates == templates_of(platform, theme_name)
        base_caption == format(templates[choice], context_text)
        caption == apply_brand_voice(base_caption, profile.brand_voice, platform)
        hashtags == generate_platform_hashtags(platform, profile, theme_name)
        optimized_caption == optimize_for_platform(caption, platform)
    IN  [ platform        |-> platform,
          caption         |-> optimized_caption,
          hashtags        |-> hashtags,
          character_count |-> Len(optimized_caption),
          hashtag_count   |-> Len(hashtags) ]

(***************************************************************************)
(* send_to_zapier.  A response is what requests.post does: it returns a   *)
(* status code or raises a transport exception.                           *)
(***************************************************************************)

\* status codes the endpoint answers with
StatusCodes == {199, 200, 201, 202, 203, 204, 301, 400, 404, 500, 503}

TransportExceptions == {"Timeout", "ConnectionError"}

Responses ==
    [exception : {"None"}, status_code : StatusCodes]
        \cup [exception : TransportExceptions, status_code : {0}]

\* send_to_zapier accepting every 2xx status
send_to_zapier_any_2xx(response) ==
    IF response.exception = "None"
    THEN IF response.status_code >= 200 /\ response.status_code < 300
         THEN [raised |-> FALSE, returned |-> TRUE]
         ELSE [raised |-> FALSE, returned |-> FALSE]
    ELSE [raised |-> FALSE, returned |-> FALSE]

\* raised: an exception leaves send_to_zapier; returned: its return value
send_to_zapier(response) ==
    IF response.exception = "None"
    THEN IF response.status_code \in {200, 201, 202}
         THEN [raised |-> FALSE, returned |-> TRUE]
         ELSE [raised |-> FALSE, returned |-> FALSE]
    ELSE [raised |-> FALSE, returned |-> FALSE]

(***************************************************************************)
(* The posting time computed in create_multi_platform_campaign.           *)
(* A datetime is [day, hour, minute, second, microsecond], day being the  *)
(* number of the calendar day.                                            *)
(***************************************************************************)

\* a <= b on datetimes
DtLE(a, b) ==
    LET ka == <<a.day, a.hour, a.minute, a.second, a.microsecond>>
        kb == <<b.day, b.hour, b.minute, b.second, b.microsecond>>
    IN  \/ ka = kb
        \/ \E i \in 1..5 : ka[i] < kb[i] /\ \A j \in 1..(i - 1) : ka[j] = kb[j]

\* the lookup and the parse that raise (KeyError, ValueError)
posting_time_error(profile, platform) ==
    IF platform \notin DOMAIN profile.optimal_posting_times
    THEN TRUE
    ELSE LET parts == Split(profile.optimal_posting_times[platform], <<":">>)
         IN  IF Len(parts) # 2 THEN TRUE
             ELSE IF ~IsInt(parts[1]) \/ ~IsInt(parts[2]) THEN TRUE
             ELSE ParseInt(parts[1]) > 23 \/ ParseInt(parts[2]) > 59

\* posting_time_of moving to the next day only when strictly in the past
posting_time_of_strict(optimal_time_str, base_time) ==
    LET parts  == Split(optimal_time_str, <<":">>)
        hour   == ParseInt(parts[1])
        minute == ParseInt(parts[2])
        posting_time == [base_time EXCEPT !.hour = hour, !.minute = minute,
                                          !.second = 0, !.microsecond = 0]
    IN  IF DtLE(posting_time, base_time) /\ posting_time # base_time
        THEN [posting_time EXCEPT !.day = @ + 1]
        ELSE posting_time

posting_time_of(optimal_time_str, base_time) ==
    LET parts  == Split(optimal_time_str, <<":">>)
        hour   == ParseInt(parts[1])
        minute == ParseInt(parts[2])
        posting_time == [base_time EXCEPT !.hour = hour, !.minute = minute,
                                          !.second = 0, !.microsecond = 0]
    IN  IF DtLE(posting_time, base_time)
        THEN [posting_time EXCEPT !.day = @ + 1]
        ELSE posting_time

DigitChar == <<"0", "1", "2", "3", "4", "5", "6", "7", "8", "9">>

RECURSIVE Digits(_)
\* str(n) for n >= 0
Digits(n) == IF n < 10 THEN <<DigitChar[n + 1]>>
             ELSE Digits(n \div 10) \o <<DigitChar[(n % 10) + 1]>>

TwoDigits(n) == <<DigitChar[(n \div 10) + 1], DigitChar[(n % 10) + 1]>>

\* datetime.isoformat(); the date part is written "D<day number>"
isoformat(dt) ==
    <<"D">> \o Digits(dt.day) \o <<"T">> \o TwoDigits(dt.hour) \o <<":">>
        \o TwoDigits(dt.minute) \o <<":">> \o TwoDigits(dt.second)
        \o ( IF dt.microsecond = 0 THEN <<>>
             ELSE <<".">> \o SubSeq(Digits(1000000 + dt.microsecond), 2, 7) )

\* int(datetime.timestamp()), day 0 starting at the epoch
timestamp(dt) == dt.day * 86400 + dt.hour * 3600 + dt.minute * 60 + dt.second

\* the payload built at "webhook_data = {...}"
webhook_data_of(artist_profile, platform, theme, context, platform_content, base_time, posting_time) ==
    [ content_id      |-> <<artist_profile.artist_id, platform, theme, timestamp(base_time)>>,
      artist_id       |-> artist_profile.artist_id,
      artist_name     |-> artist_profile.stage_name,
      platform        |-> platform,
      caption         |-> platform_content.caption,
      hashtags        |-> platform_content.hashtags,
      scheduled_time  |-> isoformat(posting_time),
      theme           |-> theme,
      context         |-> context,
      generation_time |-> isoformat(base_time),
      character_count |-> platform_content.character_count,
      hashtag_count   |-> platform_content.hashtag_count,
      brand_voice     |-> artist_profile.brand_voice,
      genre           |-> artist_profile.genre ]

(***************************************************************************)
(* create_sample_artists and the tables of run_daily_multi_platform_campaign *)
(***************************************************************************)

create_sample_artists ==
    << create_artist_profile(<<"a","l","e","x","_","r","i","v","e","r","s">>,
                             <<"A","l","e","x"," ","R","i","v","e","r","s">>,
                             <<"i","n","d","i","e">>, "introspective"),
       create_artist_profile(<<"m","a","y","a","_","s","o","u","n","d">>,
                             <<"M","a","y","a"," ","S","o","u","n","d">>,
                             <<"p","o","p">>, "energetic"),
       create_artist_profile(<<"e","c","h","o","_","b","e","a","t","s">>,
                             <<"E","c","h","o"," ","B","e","a","t","s">>,
                             <<"e","l","e","c","t","r","o","n","i","c">>, "rebellious"),
       create_artist_profile(<<"s","o","u","l","_","v","o","i","c","e">>,
                             <<"S","o","u","l"," ","V","o","i","c","e">>,
                             <<"r","&","b">>, "playful") >>

themes == <<"new-release", "studio-session", "fan-appreciation", "behind-scenes">>

context_examples ==
       "new-release" :> <<<<"m","y"," ","l","a","t","e","s","t"," ","s","i","n","g","l","e">>, <<"t","h","i","s"," ","n","e","w"," ","t","r","a","c","k"," ","I","'","v","e"," ","b","e","e","n"," ","w","o","r","k","i","n","g"," ","o","n">>, <<"s","o","m","e","t","h","i","n","g"," ","s","p","e","c","i","a","l"," ","I"," ","j","u","s","t"," ","f","i","n","i","s","h","e","d">>>>
    @@ "studio-session" :> <<<<"l","a","t","e"," ","n","i","g","h","t"," ","r","e","c","o","r","d","i","n","g">>, <<"n","e","w"," ","m","a","t","e","r","i","a","l"," ","i","n"," ","p","r","o","g","r","e","s","s">>, <<"e","x","p","e","r","i","m","e","n","t","i","n","g"," ","w","i","t","h"," ","f","r","e","s","h"," ","s","o","u","n","d","s">>>>
    @@ "fan-appreciation" :> <<<<"r","e","a","c","h","i","n","g"," ","5","K"," ","f","o","l","l","o","w","e","r","s">>, <<"i","n","c","r","e","d","i","b","l","e"," ","s","u","p","p","o","r","t"," ","l","a","t","e","l","y">>, <<"a","m","a","z","i","n","g"," ","r","e","s","p","o","n","s","e"," ","t","o"," ","m","y"," ","m","u","s","i","c">>>>
    @@ "behind-scenes" :> <<<<"m","y"," ","s","o","n","g","w","r","i","t","i","n","g"," ","p","r","o","c","e","s","s">>, <<"s","t","u","d","i","o"," ","s","e","t","u","p"," ","t","o","u","r">>, <<"c","r","e","a","t","i","v","e"," ","j","o","u","r","n","e","y"," ","u","p","d","a","t","e","s">>>>

(***************************************************************************)
(* State                                                                  *)
(***************************************************************************)

VARIABLES
    artist_profile,     \* arguments of create_multi_platform_campaign
    theme,
    context,
    pc,                 \* position in the running code
    platform_i,         \* index of the for loop over artist_profile["platforms"]
    campaign_results,
    platform_content,   \* locals of the loop body
    base_time,
    posting_time,
    webhook_data,
    clock,              \* what datetime.now() returns
    sink,               \* calls of send_to_zapier in the running campaign:
                        \* the platform of the payload and how the call ended
    artist_i,           \* locals of run_daily_multi_platform_campaign
    total_posts,
    successful_posts,
    returned_true,      \* number of send_to_zapier calls that returned True
    daily_result,       \* what run_daily_multi_platform_campaign returned
    hashtag_call,       \* one call of generate_platform_hashtags
    optimize_call,      \* one call of optimize_for_platform
    schedule_call,      \* one computation of the posting time
    send_call,          \* one call of send_to_zapier
    repeated            \* campaigns run one after another on the same list objects

argVars   == <<artist_profile, theme, context>>
loopVars  == <<platform_i, campaign_results>>
bodyVars  == <<platform_content, base_time, posting_time, webhook_data>>
envVars   == <<clock, sink, returned_true>>
dailyVars == <<artist_i, total_posts, successful_posts, daily_result>>
unitVars  == <<hashtag_call, optimize_call, schedule_call, send_call, repeated>>
vars == <<argVars, pc, loopVars, bodyVars, envVars, dailyVars, unitVars>>

None == "None"

(***************************************************************************)
(* Bounds of the model                                                    *)
(***************************************************************************)

\* longest platform list drawn for a caller-built profile
MaxPlatforms == 2

\* seconds one delivery takes (at most the timeout of 30)
Latency == 1

\* a platform identifier that is not in the catalog
UnknownPlatform == "myspace"

\* dt + timedelta(seconds=n), n < 60
AddSeconds(dt, n) ==
    LET s == dt.second + n
        m == dt.minute + (s \div 60)
        h == dt.hour + (m \div 60)
    IN  [dt EXCEPT !.second = s % 60, !.minute = m % 60, !.hour = h % 24,
                   !.day = @ + (h \div 24)]

DateTime(d, h, m, s, us) ==
    [day |-> d, hour |-> h, minute |-> m, second |-> s, microsecond |-> us]

\* the clock reading at which a campaign or the daily run starts: the third
\* delivery (twitter, "12:00") is then built at 12:00:00 sharp
ClockStarts == { DateTime(0, 11, 59, 58, 0) }

\* random.choice(context_examples[theme]) picks among the first MaxContexts
MaxContexts == 1

contexts_of(t) == Range(Take(context_examples[t], MaxContexts))

SeqsUpTo(S, n) == UNION {[1..k -> S] : k \in 0..n}

\* platform lists of caller-built profiles: the list of create_artist_profile
\* and the short lists over two catalog platforms and an unknown one
PlatformLists ==
    {ProfilePlatforms}
        \cup SeqsUpTo({"instagram", "twitter", UnknownPlatform}, MaxPlatforms)

Remove(f, k) == [x \in (DOMAIN f) \ {k} |-> f[x]]

\* profiles a caller passes: a created profile, possibly with another platform
\* list, possibly with a posting time removed
CampaignProfiles ==
    LET p == create_sample_artists[2] IN
    { [p EXCEPT !.platforms = l] : l \in PlatformLists }
        \cup { [p EXCEPT !.optimal_posting_times = Remove(@, k)] : k \in {"tiktok", "linkedin"} }

UnitIdle ==
    /\ hashtag_call = None
    /\ optimize_call = None
    /\ schedule_call = None
    /\ send_call = None
    /\ repeated = None

DailyIdle ==
    /\ artist_i = 0
    /\ total_posts = 0
    /\ successful_posts = 0
    /\ daily_result = None

BodyIdle ==
    /\ platform_content = None
    /\ base_time = None
    /\ posting_time = None
    /\ webhook_data = None

\* the locals of the loop body are dead once the iteration is over
BodyReset ==
    /\ platform_content' = None
    /\ base_time' = None
    /\ posting_time' = None
    /\ webhook_data' = None

(***************************************************************************)
(* create_multi_platform_campaign                                         *)
(***************************************************************************)

\* a call create_multi_platform_campaign(artist_profile, theme, context)
Init ==
    /\ artist_profile \in CampaignProfiles
    /\ theme \in Range(themes)
    /\ context \in contexts_of(theme)
    /\ pc = "loop"
    /\ platform_i = 1
    /\ campaign_results = <<>>
    /\ BodyIdle
    /\ clock \in ClockStarts
    /\ sink = <<>>
    /\ returned_true = 0
    /\ DailyIdle
    /\ UnitIdle

platform_now == artist_profile.platforms[platform_i]

\* the exceptions the try block raises before send_to_zapier is reached
build_raises ==
    IF content_key_error(platform_now, artist_profile)
    THEN TRUE
    ELSE posting_time_error(artist_profile, platform_now)

\* str(e) of the exception raised: a KeyError shows the missing key
error_of(platform) == <<"'", platform, "'">>

error_result(platform) ==
    [platform |-> platform, success |-> FALSE, error |-> error_of(platform)]

\* success_result always reporting success
success_result_always_true(platform, success, content, time) ==
    [ platform     |-> platform,
      success      |-> TRUE,
      content      |-> content,
      posting_time |-> isoformat(time) ]

\* the record appended after a delivery, lines 378-383
success_result(platform, success, content, time) ==
    [ platform     |-> platform,
      success      |-> success,
      content      |-> content,
      posting_time |-> isoformat(time) ]

\* the loop has a platform left whose try block reaches send_to_zapier
can_build ==
    /\ pc = "loop"
    /\ platform_i <= Len(artist_profile.platforms)
    /\ ~build_raises

\* the try block up to the payload, lines 344-373
BuildPayload ==
    /\ can_build
    /\ \E choice \in 1..Len(templates_of(platform_now, theme)) :
         LET content == generate_platform_content(platform_now, theme, context,
                                                  artist_profile, choice)
             time == posting_time_of(artist_profile.optimal_posting_times[platform_now],
                                     clock)
         IN  /\ platform_content' = content
             /\ base_time' = clock
             /\ posting_time' = time
             /\ webhook_data' = webhook_data_of(artist_profile, platform_now, theme,
                                                context, content, clock, time)
    /\ pc' = "send"
    /\ UNCHANGED <<argVars, loopVars, envVars, dailyVars, unitVars>>

\* BuildFails without the except clause: the exception ends the campaign
BuildFails_unhandled ==
    /\ pc = "loop"
    /\ platform_i <= Len(artist_profile.platforms)
    /\ build_raises
    /\ pc' = "returned"
    /\ UNCHANGED <<argVars, loopVars, bodyVars, envVars, dailyVars, unitVars>>

\* the try block raises and the except clause records the failure
BuildFails ==
    /\ pc = "loop"
    /\ platform_i <= Len(artist_profile.platforms)
    /\ build_raises
    /\ campaign_results' = Append(campaign_results, error_result(platform_now))
    /\ platform_i' = platform_i + 1
    /\ UNCHANGED <<argVars, pc, bodyVars, envVars, dailyVars, unitVars>>

\* SendToZapier calling send_to_zapier a second time when the first call
\* returned False
SendToZapier_retrying ==
    /\ pc = "send"
    /\ \E r \in {send_to_zapier(response) : response \in Responses} :
         LET call == [platform |-> webhook_data.platform,
                      raised |-> r.raised, returned |-> r.returned]
         IN  /\ sink' = (IF r.returned THEN Append(sink, call)
                                       ELSE Append(Append(sink, call), call))
             /\ IF r.raised
                THEN /\ campaign_results' =
                            Append(campaign_results, error_result(platform_now))
                     /\ UNCHANGED returned_true
                ELSE /\ campaign_results' = Append(campaign_results,
                            success_result(platform_now, r.returned, platform_content,
                                           posting_time))
                     /\ returned_true' = returned_true + (IF r.returned THEN 1 ELSE 0)
    /\ platform_i' = platform_i + 1
    /\ pc' = "loop"
    /\ BodyReset
    /\ clock' = AddSeconds(clock, Latency)
    /\ UNCHANGED <<argVars, dailyVars, unitVars>>

\* success = self.send_to_zapier(webhook_data) and campaign_results.append({...}),
\* lines 375-385; the locals of the loop body are dead afterwards.  An exception
\* that leaves send_to_zapier is handled by the except clause.
SendToZapier ==
    /\ pc = "send"
    /\ \E r \in {send_to_zapier(response) : response \in Responses} :
         /\ sink' = Append(sink, [platform |-> webhook_data.platform,
                                  raised |-> r.raised, returned |-> r.returned])
         /\ IF r.raised
            THEN /\ campaign_results' =
                        Append(campaign_results, error_result(platform_now))
                 /\ UNCHANGED returned_true
            ELSE /\ campaign_results' = Append(campaign_results,
                        success_result(platform_now, r.returned, platform_content,
                                       posting_time))
                 /\ returned_true' = returned_true + (IF r.returned THEN 1 ELSE 0)
    /\ platform_i' = platform_i + 1
    /\ pc' = "loop"
    /\ BodyReset
    /\ clock' = AddSeconds(clock, Latency)
    /\ UNCHANGED <<argVars, dailyVars, unitVars>>

\* return campaign_results
ReturnResults ==
    /\ pc = "loop"
    /\ platform_i > Len(artist_profile.platforms)
    /\ pc' = "returned"
    /\ UNCHANGED <<argVars, loopVars, bodyVars, envVars, dailyVars, unitVars>>

Next ==
    \/ BuildPayload
    \/ BuildFails
    \/ SendToZapier
    \/ ReturnResults

Spec == Init /\ [][Next]_vars

(***************************************************************************)
(* run_daily_multi_platform_campaign                                      *)
(***************************************************************************)

\* artists = create_sample_artists()
artists == create_sample_artists

InitDaily ==
    /\ artist_i = 1
    /\ total_posts = 0
    /\ successful_posts = 0
    /\ daily_result = None
    /\ pc = "for_artist"
    /\ artist_profile = None
    /\ theme = None
    /\ context = None
    /\ platform_i = 0
    /\ campaign_results = <<>>
    /\ BodyIdle
    /\ clock \in ClockStarts
    /\ sink = <<>>
    /\ returned_true = 0
    /\ UnitIdle

\* theme = random.choice(themes); context = random.choice(context_examples[theme]);
\* the call generator.create_multi_platform_campaign(artist, theme, context)
CallCampaign ==
    /\ pc = "for_artist"
    /\ artist_i <= Len(artists)
    /\ \E t \in Range(themes) :
         /\ theme' = t
         /\ t \in DOMAIN context_examples
         /\ \E c \in contexts_of(t) : context' = c
    /\ artist_profile' = artists[artist_i]
    /\ platform_i' = 1
    /\ campaign_results' = <<>>
    /\ sink' = <<>>
    /\ pc' = "loop"
    /\ UNCHANGED <<bodyVars, clock, returned_true, total_posts, successful_posts,
                   daily_result, artist_i, unitVars>>

\* count_success counting every result
count_success_every_result(results) == Len(results)

RECURSIVE count_success(_)
\* the number of results with result["success"]
count_success(results) ==
    IF results = <<>> THEN 0
    ELSE (IF Head(results).success THEN 1 ELSE 0) + count_success(Tail(results))

\* the campaign returns campaign_results to the daily run, which counts them
\* ("for result in results"); results is dead afterwards
CountResults ==
    /\ pc = "loop"
    /\ platform_i > Len(artist_profile.platforms)
    /\ artist_i \in 1..Len(artists)
    /\ total_posts' = total_posts + Len(campaign_results)
    /\ successful_posts' = successful_posts + count_success(campaign_results)
    /\ artist_i' = artist_i + 1
    /\ campaign_results' = <<>>
    /\ sink' = <<>>
    /\ artist_profile' = None
    /\ theme' = None
    /\ context' = None
    /\ platform_i' = 0
    /\ pc' = "for_artist"
    /\ UNCHANGED <<bodyVars, clock, returned_true, daily_result, unitVars>>

\* return successful_posts, total_posts
ReturnDaily ==
    /\ pc = "for_artist"
    /\ artist_i > Len(artists)
    /\ daily_result' = <<successful_posts, total_posts>>
    /\ pc' = "daily_returned"
    /\ UNCHANGED <<argVars, loopVars, bodyVars, envVars, artist_i,
                   total_posts, successful_posts, unitVars>>

NextDaily ==
    \/ CallCampaign
    \/ BuildPayload
    \/ SendToZapier
    \/ CountResults
    \/ ReturnDaily

SpecDaily == InitDaily /\ [][NextDaily]_vars

(***************************************************************************)
(* Single calls of the pure operations, on inputs drawn from bounded sets *)
(***************************************************************************)

CampaignIdle ==
    /\ artist_profile = None
    /\ theme = None
    /\ context = None
    /\ pc = "idle"
    /\ platform_i = 0
    /\ campaign_results = <<>>
    /\ BodyIdle
    /\ clock = DateTime(0, 0, 0, 0, 0)
    /\ sink = <<>>
    /\ returned_true = 0
    /\ DailyIdle

campaignVars == <<argVars, pc, loopVars, bodyVars, envVars, dailyVars>>

\* stage names given to create_artist_profile
StageNames ==
    { <<"M","a","y","a"," ","S","o","u","n","d">>,
      <<>>,
      <<"N","e","w">>,
      <<"N","E","W"," ">>,
      <<"P","o","p">>,
      <<"I","n","d","i","e">>,
      <<"S","o","u","l">> }

\* genres given to create_artist_profile (catalog genres in several spellings,
\* genres outside the catalog, the empty string)
Genres ==
    { <<"p","o","p">>, <<"P","o","p">>, <<"P","O","P">>,
      <<"h","i","p","-","h","o","p">>, <<"r","&","b">>, <<"R","&","B">>,
      <<"i","n","d","i","e">>, <<"e","l","e","c","t","r","o","n","i","c">>,
      <<"r","o","c","k">>, <<"j","a","z","z">>, <<>>,
      <<"I","n","d","e","p","e","n","d","e","n","t">>, <<"m","u","s","i","c">> }

BrandVoices == {"energetic"}

InitHashtags ==
    /\ \E stage_name \in StageNames, genre \in Genres, brand_voice \in BrandVoices :
         hashtag_call =
            [ artist_profile |-> create_artist_profile(<<"a","r","t","i","s","t">>,
                                     stage_name, genre, brand_voice),
              platform |-> None, theme |-> None, hashtags |-> <<>> ]
    /\ optimize_call = None
    /\ schedule_call = None
    /\ send_call = None
    /\ repeated = None
    /\ CampaignIdle

\* a theme that is in no table of the program
UnknownTheme == "tour-diary"

\* hashtags = self.generate_platform_hashtags(platform, artist_profile, theme)
GenerateHashtags ==
    /\ \E platform \in DOMAIN platform_specs, t \in Range(themes) \cup {UnknownTheme} :
         hashtag_call' =
            [ hashtag_call EXCEPT
                !.platform = platform,
                !.theme = t,
                !.hashtags = generate_platform_hashtags(platform,
                                 hashtag_call.artist_profile, t) ]
    /\ UNCHANGED <<campaignVars, optimize_call, schedule_call, send_call, repeated>>

NextHashtags == GenerateHashtags

SpecHashtags == InitHashtags /\ [][NextHashtags]_vars

\* longest run of drawn characters at either end of a caption
MaxEdge == 1

CaptionChars == {"a", ".", "\n"}

\* n times the letter "a"
Fill(n) == [i \in 1..n |-> "a"]

\* lengths of the filling: none, and up to each platform's limits
FillLengths ==
    {0} \cup UNION { { platform_specs[p].max_caption - d : d \in 0..3 }
                        \cup { platform_specs[p].optimal_caption - d : d \in 0..1 }
                    : p \in DOMAIN platform_specs }

\* captions given to optimize_for_platform
Captions ==
    { head \o Fill(n) \o tail :
        head \in SeqsUpTo(CaptionChars, MaxEdge),
        tail \in SeqsUpTo(CaptionChars, MaxEdge),
        n \in FillLengths }

InitOptimize ==
    /\ \E caption \in Captions :
         optimize_call = [caption |-> caption, platform |-> None, result |-> <<>>]
    /\ hashtag_call = None
    /\ schedule_call = None
    /\ send_call = None
    /\ repeated = None
    /\ CampaignIdle

\* optimized_caption = self.optimize_for_platform(caption, platform)
OptimizeForPlatform ==
    /\ \E platform \in DOMAIN platform_specs :
         optimize_call' =
            [ optimize_call EXCEPT
                !.platform = platform,
                !.result = optimize_for_platform(optimize_call.caption, platform) ]
    /\ UNCHANGED <<campaignVars, hashtag_call, schedule_call, send_call, repeated>>

NextOptimize == OptimizeForPlatform

SpecOptimize == InitOptimize /\ [][NextOptimize]_vars

\* configured times of day: those of create_artist_profile and others
TimeStrings ==
    Range(create_sample_artists[1].optimal_posting_times)
        \cup { <<"0","0",":","0","0">>, <<"2","3",":","5","9">>,
               <<"0","9",":","3","0">>, <<"7",":","5">> }

\* readings of datetime.now()
Nows ==
    { DateTime(d, h, m, sec, us) :
        d \in {0, 1}, h \in {0, 7, 9, 14, 23}, m \in {0, 5, 30, 59},
        sec \in {0, 59}, us \in {0, 1, 999999} }

InitSchedule ==
    /\ \E optimal_time_str \in TimeStrings, now \in Nows :
         schedule_call = [ optimal_time_str |-> optimal_time_str, base_time |-> now,
                           computed |-> FALSE, posting_time |-> now ]
    /\ hashtag_call = None
    /\ optimize_call = None
    /\ send_call = None
    /\ repeated = None
    /\ CampaignIdle

\* lines 349-355 of create_multi_platform_campaign
ComputePostingTime ==
    /\ ~schedule_call.computed
    /\ schedule_call' =
          [ schedule_call EXCEPT
              !.computed = TRUE,
              !.posting_time = posting_time_of(schedule_call.optimal_time_str,
                                               schedule_call.base_time) ]
    /\ UNCHANGED <<campaignVars, hashtag_call, optimize_call, send_call, repeated>>

NextSchedule == ComputePostingTime

SpecSchedule == InitSchedule /\ [][NextSchedule]_vars

\* payloads given to send_to_zapier: those of the sample artists
SendPayloads ==
    { LET content == generate_platform_content(platform, t, context_examples[t][1],
                                               artist, 1)
          now == DateTime(0, 11, 59, 58, 0)
      IN  webhook_data_of(artist, platform, t, context_examples[t][1], content, now,
              posting_time_of(artist.optimal_posting_times[platform], now)) :
        artist \in Range(create_sample_artists),
        platform \in Range(ProfilePlatforms),
        t \in Range(themes) }

InitSend ==
    /\ \E content_data \in SendPayloads :
         send_call = [ content_data |-> content_data, called |-> FALSE,
                       response |-> [exception |-> "None", status_code |-> 0],
                       raised |-> FALSE, returned |-> FALSE ]
    /\ hashtag_call = None
    /\ optimize_call = None
    /\ schedule_call = None
    /\ repeated = None
    /\ CampaignIdle

\* one call send_to_zapier(content_data) with the endpoint's response
CallSendToZapier ==
    /\ ~send_call.called
    /\ \E response \in Responses :
         LET r == send_to_zapier(response) IN
         send_call' = [ send_call EXCEPT !.called = TRUE, !.response = response,
                                         !.raised = r.raised, !.returned = r.returned ]
    /\ UNCHANGED <<campaignVars, hashtag_call, optimize_call, schedule_call, repeated>>

NextSend == CallSendToZapier

SpecSend == InitSend /\ [][NextSend]_vars

(***************************************************************************)
(* Campaigns run one after another on the same list objects               *)
(***************************************************************************)

\* number of campaigns run one after another
MaxRuns == 2

\* The list objects that outlive a call are named <<kind, platform, key>>:
\*   <<"base", platform, <<>>>>          platform_hashtags[platform]["base"]
\*   <<"genre_tags", platform, genre>>   platform_hashtags[platform]["genre_tags"][genre]
\*   <<"brand", platform, artist_id>>    the brand list built by create_artist_profile
\*   <<"genre", platform, artist_id>>    the list ["music"] built by create_artist_profile
\* A profile holds its genre list by reference: dict.get returns the list
\* object of the catalog itself when genre.lower() is a key.

\* hashtags = [] in generate_platform_hashtags names a new list object
hashtags_ref(platform) == <<"hashtags", platform, <<>>>>

\* self.platform_hashtags[platform]["base"]
base_ref(platform) == <<"base", platform, <<>>>>

\* artist_profile["hashtag_strategy"][platform]["brand"]
brand_ref(platform, profile) == <<"brand", platform, profile.artist_id>>

\* artist_profile["hashtag_strategy"][platform]["genre"]: the object that
\* genre_tags.get(genre.lower(), ["music"]) returned
genre_ref(platform, profile) ==
    IF Lower(profile.genre) \in DOMAIN platform_hashtags[platform].genre_tags
    THEN <<"genre_tags", platform, Lower(profile.genre)>>
    ELSE <<"genre", platform, profile.artist_id>>

\* the list objects of self.platform_hashtags
CatalogRefs ==
    UNION { {base_ref(platform)} \cup
            { <<"genre_tags", platform, genre>> :
                  genre \in DOMAIN platform_hashtags[platform].genre_tags }
            : platform \in DOMAIN platform_hashtags }

\* the list objects of the hashtag_strategy of the sample artists
ProfileRefs ==
    UNION { {brand_ref(platform, create_sample_artists[a]),
             genre_ref(platform, create_sample_artists[a])}
            : platform \in Range(ProfilePlatforms),
              a \in 1..Len(create_sample_artists) }

\* the list objects after __init__ and create_sample_artists
InitialHeap ==
    [ ref \in CatalogRefs \cup ProfileRefs |->
        CASE ref[1] = "base" -> platform_hashtags[ref[2]].base
          [] ref[1] = "genre_tags" -> platform_hashtags[ref[2]].genre_tags[ref[3]]
          [] ref[1] = "brand" ->
                LET profile == CHOOSE profile \in Range(create_sample_artists) :
                                   profile.artist_id = ref[3]
                IN  brand_tags_of(profile.stage_name, profile.genre)
          [] ref[1] = "genre" -> <<MusicTag>> ]

\* name = []
new_list(heap, ref) == (ref :> <<>>) @@ heap

\* list.extend(values) on the object ref
extend(heap, ref, values) == [heap EXCEPT ![ref] = @ \o values]

\* generate_platform_hashtags with "hashtags = brand_tags" in the place of
\* "hashtags = []" and the first extend()
generate_platform_hashtags_on_brand_list(heap, platform, profile, theme_name) ==
    LET max_tags == platform_specs[platform].max_hashtags
        brand_tags == brand_ref(platform, profile)
        hashtags == brand_tags
        genre_tags == genre_ref(platform, profile)
        h2 == extend(heap, hashtags, Take(heap[genre_tags], 3))
        base_tags == base_ref(platform)
        h3 == extend(h2, hashtags, Take(h2[base_tags], 3))
        theme_specific == theme_specific_of(theme_name, platform)
        h4 == extend(h3, hashtags, Take(theme_specific, 2))
        unique_hashtags == unique_hashtags_loop(h4[hashtags], 1, {}, <<>>)
    IN  [ heap |-> [ref \in DOMAIN heap |-> h4[ref]],
          returned |-> Take(unique_hashtags, max_tags) ]

\* generate_platform_hashtags statement by statement on the list objects:
\* the objects left when it returns, and the list it returns
generate_platform_hashtags_on(heap, platform, profile, theme_name) ==
    LET max_tags == platform_specs[platform].max_hashtags
        hashtags == hashtags_ref(platform)
        h0 == new_list(heap, hashtags)
        brand_tags == brand_ref(platform, profile)
        h1 == extend(h0, hashtags, Take(h0[brand_tags], 2))
        genre_tags == genre_ref(platform, profile)
        h2 == extend(h1, hashtags, Take(h1[genre_tags], 3))
        base_tags == base_ref(platform)
        h3 == extend(h2, hashtags, Take(h2[base_tags], 3))
        theme_specific == theme_specific_of(theme_name, platform)
        h4 == extend(h3, hashtags, Take(theme_specific, 2))
        unique_hashtags == unique_hashtags_loop(h4[hashtags], 1, {}, <<>>)
    IN  [ heap |-> [ref \in DOMAIN heap |-> h4[ref]],
          returned |-> Take(unique_hashtags, max_tags) ]

\* generator = MultiPlatformContentGenerator(); artists = create_sample_artists()
InitRepeated ==
    /\ repeated = [ heap |-> InitialHeap,
                    artist |-> 1, theme |-> None,
                    platform_i |-> Len(ProfilePlatforms) + 1,
                    hashtags |-> <<>>,
                    runs |-> 0,          \* campaigns started
                    before |-> {} ]      \* <<artist, theme>> of the earlier ones
    /\ hashtag_call = None
    /\ optimize_call = None
    /\ schedule_call = None
    /\ send_call = None
    /\ CampaignIdle

\* generator.create_multi_platform_campaign(artist, theme, context)
StartCampaign ==
    /\ repeated.platform_i > Len(create_sample_artists[repeated.artist].platforms)
    /\ repeated.runs < MaxRuns
    /\ \E a \in 1..Len(create_sample_artists), t \in Range(themes) :
         repeated' = [ repeated EXCEPT
                         !.artist = a, !.theme = t, !.platform_i = 1,
                         !.hashtags = <<>>,
                         !.runs = @ + 1,
                         !.before = IF repeated.runs = 0 THEN {}
                                    ELSE @ \cup {<<repeated.artist, repeated.theme>>} ]
    /\ UNCHANGED <<campaignVars, hashtag_call, optimize_call, schedule_call, send_call>>

\* one pass of the loop "for platform in artist_profile['platforms']"
CampaignPlatform ==
    /\ repeated.platform_i \in 1..Len(create_sample_artists[repeated.artist].platforms)
    /\ LET profile == create_sample_artists[repeated.artist]
           platform == profile.platforms[repeated.platform_i]
           r == generate_platform_hashtags_on(repeated.heap, platform, profile,
                                              repeated.theme)
       IN  repeated' = [ repeated EXCEPT
                           !.heap = r.heap,
                           !.hashtags = Append(@, r.returned),
                           !.platform_i = @ + 1 ]
    /\ UNCHANGED <<campaignVars, hashtag_call, optimize_call, schedule_call, send_call>>

NextRepeated == StartCampaign \/ CampaignPlatform

SpecRepeated == InitRepeated /\ [][NextRepeated]_vars

(***************************************************************************)
(* Properties                                                             *)
(***************************************************************************)

\* no two positions of tags hold tags that are equal case-insensitively
DistinctCI(tags) ==
    \A i, j \in 1..Len(tags) : i # j => Lower(tags[i]) # Lower(tags[j])

\* C1: for every platform, every created profile and every theme, the list
\* generate_platform_hashtags returns has at most max_hashtags tags and no two
\* tags that are equal case-insensitively.
C1_HashtagsCappedAndDistinct ==
    hashtag_call.platform # None =>
        /\ Len(hashtag_call.hashtags)
              <= platform_specs[hashtag_call.platform].max_hashtags
        /\ DistinctCI(hashtag_call.hashtags)

\* a call where the limit cut the list and tags differing only in case met
C1_Witness ==
    /\ hashtag_call.platform = "twitter"
    /\ LET all == hashtags_extended("twitter", hashtag_call.artist_profile,
                                    hashtag_call.theme)
       IN  /\ \E i, j \in 1..5 : i < j /\ all[i] # all[j]
                                  /\ Lower(all[i]) = Lower(all[j])
           /\ Len(hashtag_call.hashtags) = 5

\* C2: for every platform and every caption, the caption optimize_for_platform
\* returns is at most max_caption long.
C2_CaptionWithinMax ==
    optimize_call.platform # None =>
        Len(optimize_call.result) <= platform_specs[optimize_call.platform].max_caption

\* the platforms of the running campaign whose try block raises
raising(i) ==
    IF content_key_error(artist_profile.platforms[i], artist_profile)
    THEN TRUE
    ELSE posting_time_error(artist_profile, artist_profile.platforms[i])

\* the position in sink of the delivery for platform i (when it has one)
sink_index(i) == Cardinality({j \in 1..i : ~raising(j)})

\* C3: a campaign returns one record per platform, in the profile's platform
\* order, and the success flag of a delivered platform is what its delivery
\* returned; one failed delivery among five gives 4 successes and 1 failure.
C3_OneRecordPerPlatform ==
    pc = "returned" =>
        LET n == Len(artist_profile.platforms)
            failed == {i \in 1..Len(campaign_results) : ~campaign_results[i].success}
        IN  /\ Len(campaign_results) = n
            /\ \A i \in 1..n :
                  /\ campaign_results[i].platform = artist_profile.platforms[i]
                  /\ ~raising(i) =>
                        /\ sink_index(i) <= Len(sink)
                        /\ campaign_results[i].success = sink[sink_index(i)].returned
            /\ ( /\ n = 5
                 /\ Len(sink) = 5
                 /\ Cardinality({k \in 1..5 : ~sink[k].returned}) = 1 )
               => /\ Cardinality(failed) = 1
                  /\ Cardinality((1..5) \ failed) = 4

\* a returned five-platform campaign with exactly one failed delivery
C3_Witness ==
    /\ pc = "returned"
    /\ Len(artist_profile.platforms) = 5
    /\ Len(sink) = 5
    /\ Cardinality({k \in 1..5 : ~sink[k].returned}) = 1
    /\ ~campaign_results[3].success

\* C4: a platform whose content or payload raises gets a record with
\* success = false and an error message, nothing is sent for it, and every later
\* platform is processed as without the failure.
C4_FailureIsRecordedAndSkipped ==
    /\ \A i \in 1..Len(campaign_results) :
          LET r == campaign_results[i]
              platform == artist_profile.platforms[i]
          IN  IF raising(i)
              THEN /\ DOMAIN r = {"platform", "success", "error"}
                   /\ r.platform = platform
                   /\ r.success = FALSE
                   /\ r.error = error_of(platform)
              ELSE /\ DOMAIN r = {"platform", "success", "content", "posting_time"}
                   /\ r.platform = platform
                   /\ (\E j \in 1..(i - 1) : raising(j)) =>
                         r.content \in
                           { generate_platform_content(platform, theme, context,
                                                       artist_profile, choice) :
                               choice \in 1..Len(templates_of(platform, theme)) }
                   /\ sink[sink_index(i)].platform = platform
                   /\ r.success = sink[sink_index(i)].returned
    /\ Len(sink) = sink_index(Len(campaign_results))
    /\ pc = "send" =>
          /\ ~raising(platform_i)
          /\ webhook_data.platform = platform_now
          /\ webhook_data.caption = platform_content.caption
    /\ pc = "returned" => Len(campaign_results) = Len(artist_profile.platforms)

\* a returned campaign where a platform raised and a later one was delivered
C4_Witness ==
    /\ pc = "returned"
    /\ \E i, j \in 1..Len(campaign_results) :
          /\ i < j
          /\ raising(i)
          /\ "error" \in DOMAIN campaign_results[i]
          /\ ~raising(j)
          /\ campaign_results[j].success

\* the time of day a string "HH:MM" names, in seconds after midnight
seconds_of(optimal_time_str) ==
    LET parts == Split(optimal_time_str, <<":">>)
    IN  ParseInt(parts[1]) * 3600 + ParseInt(parts[2]) * 60

\* C5: the posting time is HH:MM:00.000000 on now's day when that instant is
\* strictly later than now, else HH:MM:00.000000 on the following day; 09:00 at
\* 14:00 of day D gives D+1, at 07:00 gives D.
C5_NextOccurrence ==
    schedule_call.computed =>
        LET now == schedule_call.base_time
            t == schedule_call.posting_time
            target == seconds_of(schedule_call.optimal_time_str)
            now_seconds == now.hour * 3600 + now.minute * 60 + now.second
            later == \/ target > now_seconds
                     \/ target = now_seconds /\ 0 > now.microsecond
        IN  /\ t.hour * 3600 + t.minute * 60 = target
            /\ t.minute < 60
            /\ t.second = 0
            /\ t.microsecond = 0
            /\ t.day = (IF later THEN now.day ELSE now.day + 1)
            /\ ( /\ schedule_call.optimal_time_str = <<"0","9",":","0","0">>
                 /\ now.hour = 14 /\ now.minute = 0 )
               => t = DateTime(now.day + 1, 9, 0, 0, 0)
            /\ ( /\ schedule_call.optimal_time_str = <<"0","9",":","0","0">>
                 /\ now.hour = 7 /\ now.minute = 0 )
               => t = DateTime(now.day, 9, 0, 0, 0)

\* a computation at the very instant HH:MM:00.000000, scheduled for the next day
C5_Witness ==
    /\ schedule_call.computed
    /\ schedule_call.base_time.hour = 9
    /\ schedule_call.base_time.minute = 0
    /\ schedule_call.base_time.second = 0
    /\ schedule_call.base_time.microsecond = 0
    /\ schedule_call.optimal_time_str = <<"0","9",":","0","0">>
    /\ schedule_call.posting_time.day = schedule_call.base_time.day + 1

\* C6: send_to_zapier returns true exactly for the statuses 200, 201 and 202,
\* false for every other status and every transport exception, and no
\* exception reaches the caller.
C6_TrueIffAccepted ==
    send_call.called =>
        /\ ~send_call.raised
        /\ send_call.returned =
              ( /\ send_call.response.exception = "None"
                /\ send_call.response.status_code >= 200
                /\ send_call.response.status_code <= 202 )

\* a call that met a transport exception and returned false
C6_Witness ==
    /\ send_call.called
    /\ send_call.response.exception = "Timeout"
    /\ ~send_call.raised
    /\ ~send_call.returned

\* the call of the example: a pop, energetic artist on twitter, fan-appreciation
C7_Example ==
    /\ hashtag_call.platform = "twitter"
    /\ hashtag_call.theme = "fan-appreciation"
    /\ hashtag_call.artist_profile.genre = <<"p","o","p">>
    /\ hashtag_call.artist_profile.brand_voice = "energetic"

\* C7 as stated: the example's list holds a tag of twitter's pop pool and a
\* fan-appreciation theme tag, has at most 5 tags and no duplicates.
C7_AsStated ==
    C7_Example =>
        /\ \E tag \in Range(hashtag_call.hashtags) :
              tag \in { <<"P","o","p","M","u","s","i","c">>, <<"P","o","p">> }
        /\ \E tag \in Range(hashtag_call.hashtags) :
              tag \in { <<"G","r","a","t","e","f","u","l">>,
                        <<"T","h","a","n","k","Y","o","u">> }
        /\ Len(hashtag_call.hashtags) <= 5
        /\ DistinctCI(hashtag_call.hashtags)

\* C7 (amended): the example's list holds a tag of twitter's pop pool, has at
\* most 5 tags and no duplicates, and holds no fan-appreciation theme tag: brand,
\* genre and base tags fill the five places.
C7_ExampleWithoutThemeTag ==
    C7_Example =>
        /\ \E tag \in Range(hashtag_call.hashtags) :
              tag \in { <<"P","o","p","M","u","s","i","c">>, <<"P","o","p">> }
        /\ \A tag \in Range(hashtag_call.hashtags) :
              tag \notin { <<"G","r","a","t","e","f","u","l">>,
                           <<"T","h","a","n","k","Y","o","u">> }
        /\ Len(hashtag_call.hashtags) = 5
        /\ DistinctCI(hashtag_call.hashtags)

\* the example's call for the stage name "Maya Sound"
C7_Witness ==
    /\ C7_Example
    /\ hashtag_call.hashtags =
          << <<"m","a","y","a","s","o","u","n","d","m","u","s","i","c">>,
             <<"p","o","p","a","r","t","i","s","t">>,
             <<"P","o","p","M","u","s","i","c">>, <<"P","o","p">>,
             <<"M","u","s","i","c">> >>

\* C8: every payload handed to the Delivery Sink carries generation_method,
\* "ai" or "template_fallback", and "template_fallback" when the caption came
\* from the template strategy (as every caption of generate_platform_content does).
C8_GenerationMethodRecorded ==
    pc = "send" =>
        /\ "generation_method" \in DOMAIN webhook_data
        /\ webhook_data.generation_method \in {"ai", "template_fallback"}
        /\ webhook_data.generation_method = "template_fallback"

\* C9: run_daily_multi_platform_campaign never raises and never stops before
\* it returns; it returns (successful_posts, total_posts) with total_posts =
\* 4 x 5 = 20, successful_posts = the number of deliveries that returned true,
\* and 0 <= successful_posts <= total_posts.
C9_DailyRunCounts ==
    /\ pc = "daily_returned" =>
          /\ daily_result = <<successful_posts, total_posts>>
          /\ total_posts = 20
          /\ total_posts = Len(create_sample_artists) * Len(ProfilePlatforms)
          /\ successful_posts = returned_true
          /\ 0 <= successful_posts
          /\ successful_posts <= total_posts
    /\ pc = "for_artist" =>
          /\ total_posts = Len(ProfilePlatforms) * (artist_i - 1)
          /\ successful_posts = returned_true
    /\ pc # "daily_returned" =>
          \/ ENABLED CallCampaign
          \/ can_build /\ Len(templates_of(platform_now, theme)) > 0
          \/ pc = "send" /\ Responses # {}
          \/ ENABLED CountResults
          \/ ENABLED ReturnDaily
    /\ (pc = "loop" /\ platform_i <= Len(artist_profile.platforms)) => ~build_raises
    /\ \A k \in 1..Len(sink) : ~sink[k].raised
    /\ \A i \in 1..Len(campaign_results) : "error" \notin DOMAIN campaign_results[i]

\* a returned daily run where some deliveries failed and some succeeded
C9_Witness ==
    /\ pc = "daily_returned"
    /\ daily_result = <<7, 20>>
    /\ returned_true = 7

\* the k-th smallest element of a set of numbers
kth(S, k) == CHOOSE i \in S : Cardinality({j \in S : j < i}) = k - 1

\* C10: the returned list is the first max_hashtags elements of the
\* case-insensitive, first-occurrence-preserving deduplication of (first 2
\* brand tags, first 3 genre tags, first 3 base tags, first 2 theme tags); a
\* tag is returned only if every distinct earlier tag is returned before it.
C10_FirstOccurrencesInOrder ==
    hashtag_call.platform # None =>
        LET platform == hashtag_call.platform
            strategy == hashtag_call.artist_profile.hashtag_strategy[platform]
            theme_part == IF hashtag_call.theme \in DOMAIN theme_tags
                          THEN theme_tags[hashtag_call.theme][platform]
                          ELSE <<MusicTag>>
            First(tags, n) == [i \in 1..(IF Len(tags) < n THEN Len(tags) ELSE n) |-> tags[i]]
            all == First(strategy.brand, 2) \o First(strategy.genre, 3)
                     \o First(platform_hashtags[platform].base, 3)
                     \o First(theme_part, 2)
            firsts == { i \in 1..Len(all) :
                          \A j \in 1..(i - 1) : Lower(all[j]) # Lower(all[i]) }
            max == platform_specs[platform].max_hashtags
            out == hashtag_call.hashtags
        IN  /\ Len(out) = (IF Cardinality(firsts) < max THEN Cardinality(firsts) ELSE max)
            /\ \A k \in 1..Len(out) : out[k] = all[kth(firsts, k)]
            /\ \A k \in 1..Len(out) :
                  \A i \in firsts : i < kth(firsts, k) =>
                      \E m \in 1..(k - 1) : out[m] = all[i]

\* a call where a duplicate was dropped and the limit cut a later category
C10_Witness ==
    /\ hashtag_call.platform = "linkedin"
    /\ hashtag_call.theme = "studio-session"
    /\ hashtag_call.artist_profile.genre = <<"h","i","p","-","h","o","p">>
    /\ hashtag_call.artist_profile.stage_name = <<>>
    /\ Len(hashtag_call.hashtags) = 5
    /\ hashtag_call.hashtags[1] = MusicTag
    /\ hashtag_call.hashtags[5] = <<"C","r","e","a","t","i","v","e","I","n","d","u","s","t","r","y">>

\* generate_platform_content returns for platform i of the running campaign
content_built(i) ==
    ~content_key_error(artist_profile.platforms[i], artist_profile)

\* The platforms are handled one after another: the records of the platforms
\* before the current one are all appended, in list order, when the current
\* one is worked on; the deliveries made so far are one for each recorded
\* platform that delivers(i) names and none for the others, in list order; a
\* delivery about to be made is for a platform delivers names.
handled_in_order(delivers(_)) ==
    LET platforms == artist_profile.platforms
        done == Len(campaign_results)
        D == {i \in 1..done : delivers(i)}
    IN  /\ pc \in {"loop", "send"} => done = platform_i - 1
        /\ pc = "returned" => done = Len(platforms)
        /\ \A i \in 1..done : campaign_results[i].platform = platforms[i]
        /\ Len(sink) = Cardinality(D)
        /\ \A k \in 1..Len(sink) :
              /\ k <= Cardinality(D)
              /\ sink[k].platform = platforms[kth(D, k)]
              /\ ~sink[k].returned => ~campaign_results[kth(D, k)].success
        /\ pc = "send" => delivers(platform_i)

\* C11 as stated: the Delivery Sink is invoked exactly once for each platform
\* whose content was built without an exception and never for the others, in
\* list order, and the record of platform i is appended before platform i+1 is
\* worked on.
C11_OneDeliveryPerBuiltContent ==
    pc \in {"loop", "send", "returned"} =>
        handled_in_order(content_built)

delivered(i) == ~raising(i)

\* C11 (amended): the Delivery Sink is invoked exactly once for each platform
\* whose try block reached send_to_zapier (the content was generated and the
\* posting time computed without an exception) and never for the others, in
\* list order, without a retry after a failed delivery, and the record of
\* platform i is appended before platform i+1 is worked on.
C11_OneDeliveryPerBuiltPayload ==
    pc \in {"loop", "send", "returned"} =>
        handled_in_order(delivered)

\* a returned five-platform campaign where the content of a platform was
\* generated but its posting time raised, a delivery failed and a later one
\* was accepted
C11_Witness ==
    /\ pc = "returned"
    /\ Len(artist_profile.platforms) = 5
    /\ \E i \in 1..5 : content_built(i) /\ raising(i)
    /\ Len(sink) = 4
    /\ ~sink[1].returned
    /\ sink[4].returned
    /\ campaign_results[5].success

\* the keys of the theme_tags dict of generate_platform_hashtags
KnownThemes == {"new-release", "studio-session", "fan-appreciation"}

\* the number of positions of tags that hold "music" in any case
music_count(tags) ==
    Cardinality({i \in 1..Len(tags) : Lower(tags[i]) = MusicTag})

C13_ListsUnchangedAndRunsAlike ==
    LET profile == create_sample_artists[repeated.artist]
    IN  /\ repeated.heap = InitialHeap
        /\ \A platform \in Range(profile.platforms) :
              /\ repeated.heap[brand_ref(platform, profile)]
                    = profile.hashtag_strategy[platform].brand
              /\ repeated.heap[genre_ref(platform, profile)]
                    = profile.hashtag_strategy[platform].genre
              /\ repeated.heap[base_ref(platform)] = platform_hashtags[platform].base
        /\ \A k \in 1..Len(repeated.hashtags) :
              repeated.hashtags[k] =
                  generate_platform_hashtags(profile.platforms[k], profile,
                                             repeated.theme)

\* a finished campaign of an artist who had a campaign with another theme
\* before
C13_Witness ==
    /\ repeated.runs = 2
    /\ repeated.platform_i = 6
    /\ Len(repeated.hashtags) = 5
    /\ \E t \in Range(themes) :
          /\ t # repeated.theme
          /\ <<repeated.artist, t>> \in repeated.before
    /\ repeated.theme = "studio-session"
    /\ Len(repeated.hashtags[1]) = 10

\* character_count and hashtag_count of a record are the lengths of its own
\* caption and hashtags
counts_match(record) ==
    /\ record.character_count = Len(record.caption)
    /\ record.hashtag_count = Len(record.hashtags)

\* C14: in the payload handed to send_to_zapier, in the content record
\* generate_platform_content returned for it and in the content of every
\* result record, character_count is the length of the caption of the same
\* record and hashtag_count the length of its hashtags list.
C14_CountsAreLengths ==
    /\ pc = "send" =>
          /\ counts_match(platform_content)
          /\ counts_match(webhook_data)
          /\ webhook_data.caption = platform_content.caption
          /\ webhook_data.hashtags = platform_content.hashtags
    /\ \A i \in 1..Len(campaign_results) :
          "content" \in DOMAIN campaign_results[i] =>
              counts_match(campaign_results[i].content)

\* a payload about to be sent whose caption optimize_for_platform changed,
\* after a content record was returned for an earlier platform
C14_Witness ==
    /\ pc = "send"
    /\ webhook_data.character_count > 0
    /\ webhook_data.hashtag_count = Len(webhook_data.hashtags)
    /\ \E choice \in 1..Len(templates_of(webhook_data.platform, theme)) :
          LET caption == apply_brand_voice(
                             format(templates_of(webhook_data.platform, theme)[choice],
                                    context),
                             artist_profile.brand_voice, webhook_data.platform)
          IN  /\ optimize_for_platform(caption, webhook_data.platform)
                     = webhook_data.caption
              /\ Len(caption) # webhook_data.character_count
    /\ \E i \in 1..Len(campaign_results) :
          "content" \in DOMAIN campaign_results[i]

====
